---- MODULE Spec2Model ----
(***************************************************************************)
(* A model of pfeature: the feature schema (src/feature_schema.ts), the    *)
(* rules-file loader, the greedy tokenizer and the featuralizer            *)
(* (src/ruleset.ts, the last and most complete variant in that file,       *)
(* lines 452-1058).                                                        *)
(*                                                                         *)
(* Strings are sequences of one-character strings (UTF-16 code units), so  *)
(* that String.slice is SubSeq.  A FeatureBundle (a Map from feature name  *)
(* to value) is a function whose DOMAIN is the set of its keys.            *)
(***************************************************************************)
EXTENDS Integers, Sequences, FiniteSets, TLC

VARIABLES
    raw_schema,           \* FeatureSchema.raw_schema: [Features, values]
    features_by_name,     \* FeatureSchema.features_by_name
    features_by_parent,   \* FeatureSchema.features_by_parent
    lifecycle,            \* "unloaded", "ready" (constructor returned), "failed" (it threw)
    base_characters,      \* Ruleset.base_characters
    mods_prefixal,        \* Ruleset.mods_prefixal
    mods_combining,       \* Ruleset.mods_combining
    mods_suffixal,        \* Ruleset.mods_suffixal
    mods_prefixal_order,  \* Ruleset.mods_prefixal_order
    mods_combining_order, \* Ruleset.mods_combining_order
    mods_suffixal_order,  \* Ruleset.mods_suffixal_order
    defaults,             \* Ruleset.defaults
    aliases,              \* Ruleset.aliases
    warnings,             \* util.ts: the module-level warnings array
    segments_raw,         \* Psegmentizer.segments_raw, as its lines
    segments_featuralized,\* Psegmentizer.segments_featuralized
    call,                 \* the last operation invoked, with its arguments
    ret                   \* what that operation returned or threw

vars == <<raw_schema, features_by_name, features_by_parent, lifecycle,
          base_characters, mods_prefixal, mods_combining, mods_suffixal,
          mods_prefixal_order, mods_combining_order, mods_suffixal_order,
          defaults, aliases, warnings, segments_raw, segments_featuralized,
          call, ret>>

schema_vars == <<raw_schema, features_by_name, features_by_parent>>

ruleset_vars == <<lifecycle, base_characters, mods_prefixal, mods_combining,
                  mods_suffixal, mods_prefixal_order, mods_combining_order,
                  mods_suffixal_order, defaults, aliases>>

batch_vars == <<segments_raw, segments_featuralized>>

(***************************************************************************)
(* Generic helpers.                                                        *)
(***************************************************************************)
Range(s) == {s[i] : i \in DOMAIN s}

EmptyBundle == [k \in {} |-> "+"]

\* All partial maps from a subset of Keys to Vals.
PartialMaps(Keys, Vals) == UNION {[D -> Vals] : D \in SUBSET Keys}

\* All sequences over S of length 0..n.
SeqsUpTo(S, n) == UNION {[1..k -> S] : k \in 0..n}

\* Array.prototype.pop / the last element.
\* const x = v; F(x): v is computed once and the value handed to F.
Let(v, F(_)) == CHOOSE out \in {F(x) : x \in {v}} : TRUE

Last(s) == s[Len(s)]
Front(s) == SubSeq(s, 1, Len(s) - 1)

(***************************************************************************)
(* Feature schemas.  A schema tree is flattened by feature name: Features  *)
(* is the array of top-level feature names (raw_schema.values.Features)    *)
(* and values[f][v] is the array of child features of f gated by value v.  *)
(***************************************************************************)
Binary(plus, minus) == ("+" :> plus) @@ ("-" :> minus)

Leaf == Binary(<<>>, <<>>)

\* A Hayes-style tree: anterior and distributed are children of +coronal.
SchemaHayes ==
    [Features |-> <<"labial", "coronal", "voice">>,
     values   |-> [labial      |-> Leaf,
                   coronal     |-> Binary(<<"anterior", "distributed">>, <<>>),
                   anterior    |-> Leaf,
                   distributed |-> Leaf,
                   voice       |-> Leaf]]

\* A deeper tree with children under both values of a feature.
SchemaDeep ==
    [Features |-> <<"voice", "coronal">>,
     values   |-> [voice       |-> Leaf,
                   coronal     |-> Binary(<<"anterior">>, <<"labial">>),
                   anterior    |-> Binary(<<>>, <<"distributed">>),
                   labial      |-> Leaf,
                   distributed |-> Leaf]]

Schemas == {SchemaHayes, SchemaDeep}

FeatureNames == {"labial", "coronal", "anterior", "distributed", "voice"}

RootParent == [feature |-> "Root", value |-> "Features"]

\* FeatureSchema.constructor: the name index.  Every node of the tree, the
\* Root included, is indexed under its name.
build_features_by_name(tree) ==
    [n \in (DOMAIN tree.values) \cup {"Root"} |-> n]

\* FeatureSchema.constructor: the parent index, name -> {feature: parent,
\* value: branch to the child}.  Children of the Root are indexed under
\* {Root, "Features"}.
build_features_by_parent(tree) ==
    [c \in DOMAIN tree.values |->
        IF c \in Range(tree.Features) THEN RootParent
        ELSE CHOOSE fv \in [feature : DOMAIN tree.values, value : {"+", "-"}] :
                 /\ fv.value \in DOMAIN tree.values[fv.feature]
                 /\ c \in Range(tree.values[fv.feature][fv.value])]

(***************************************************************************)
(* FeatureSchema.validate_bundle.  `stack` is the very array               *)
(* raw_schema.values.Features (line 244 takes no copy), so pop and push    *)
(* act on the schema's own top-level list: the operator returns the        *)
(* verdict together with the array as the call leaves it.                  *)
(***************************************************************************)
RECURSIVE validate_bundle_loop(_, _, _)
validate_bundle_loop(values, stack, bundle) ==
    IF Len(stack) = 0 THEN [ok |-> TRUE, err |-> "none", stack |-> stack]
    ELSE LET curr == Last(stack)
             rest == Front(stack)
         IN  IF curr \notin DOMAIN bundle
             THEN [ok |-> FALSE, err |-> "missing", stack |-> rest]
             ELSE IF bundle[curr] \notin DOMAIN values[curr]
             THEN [ok |-> FALSE, err |-> "not possible", stack |-> rest]
             ELSE validate_bundle_loop(values,
                                       rest \o values[curr][bundle[curr]],
                                       bundle)

\* The features the walk from `stack` visits under the bundle's choices.
RECURSIVE visited_from(_, _, _)
visited_from(values, S, bundle) ==
    LET more == UNION {Range(values[f][bundle[f]]) :
                          f \in {g \in S : g \in DOMAIN bundle
                                           /\ bundle[g] \in DOMAIN values[g]}}
    IN  IF more \subseteq S THEN S ELSE visited_from(values, S \cup more, bundle)

\* Mutant: a validate_bundle that also rejects entries the walk never visits.
validate_bundle_rejecting_extras(schema, bundle) ==
    LET r == validate_bundle_loop(schema.values, schema.Features, bundle)
    IN  IF r.ok /\ ~((DOMAIN bundle)
                       \subseteq visited_from(schema.values, Range(schema.Features), bundle))
        THEN [ok |-> FALSE, err |-> "unreachable", stack |-> r.stack]
        ELSE r

validate_bundle(schema, bundle) ==
    validate_bundle_loop(schema.values, schema.Features, bundle)

\* The values object of a node: the Root has the single value "Features".
node_values(schema, n) ==
    IF n = "Root" THEN ("Features" :> schema.Features) ELSE schema.values[n]

\* FeatureSchema.bundle_to_values: the error it throws, or "none".
bundle_to_values_err(schema, by_name, bundle) ==
    IF \E k \in DOMAIN bundle : k \notin DOMAIN by_name
    THEN "undefined feature"
    ELSE IF \E k \in DOMAIN bundle : bundle[k] \notin DOMAIN node_values(schema, k)
    THEN "invalid feature/value pair"
    ELSE "none"

(***************************************************************************)
(* FeatureSchema.apply_modifier (272-287).  keys is the union of the keys  *)
(* of base and modifier; a key the modifier lacks is read from the base.   *)
(* The result is handed to validate_bundle, whose stack stays in the       *)
(* schema.                                                                 *)
(***************************************************************************)
apply_modifier(schema, base, modifier) ==
    LET keys == (DOMAIN base) \cup (DOMAIN modifier)
        missing == {k \in keys : k \notin DOMAIN modifier /\ k \notin DOMAIN base}
        res == [k \in keys |-> IF k \in DOMAIN modifier THEN modifier[k] ELSE base[k]]
    IN  IF missing # {}
        THEN [ok |-> FALSE, err |-> "couldn't find key", stack |-> schema.Features,
              bundle |-> EmptyBundle]
        ELSE Let(validate_bundle(schema, res), LAMBDA v :
                 [ok |-> v.ok, err |-> v.err, stack |-> v.stack,
                  bundle |-> IF v.ok THEN res ELSE EmptyBundle])

(***************************************************************************)
(* FeatureSchema.validate_modifier_rule.  root_children is read from the   *)
(* live raw_schema.values.Features array at the time of the call.  The     *)
(* parents of the match features are compared as objects; one object is    *)
(* built per (parent, value) branch, so identity is equality of the pair.  *)
(***************************************************************************)
validate_modifier_rule(schema, by_name, by_parent, lhs, rhs) ==
    LET root_children == Range(schema.Features)
        derived1 == {x \in DOMAIN rhs : x \notin root_children}
        derived2 == {x \in derived1 : x \notin DOMAIN lhs}
        lhs_feature_parents == {by_parent[x] : x \in DOMAIN lhs}
        derived3 == {x \in derived2 : by_parent[x] \notin lhs_feature_parents}
    IN  IF bundle_to_values_err(schema, by_name, lhs) # "none"
        THEN [ok |-> FALSE, err |-> bundle_to_values_err(schema, by_name, lhs)]
        ELSE IF bundle_to_values_err(schema, by_name, rhs) # "none"
        THEN [ok |-> FALSE, err |-> bundle_to_values_err(schema, by_name, rhs)]
        ELSE IF \E x \in (DOMAIN lhs) \cup derived2 : x \notin DOMAIN by_parent
        THEN [ok |-> FALSE, err |-> "undefined get_parent"]
        ELSE IF \E x \in derived3 :
                    ~ \E f \in DOMAIN lhs : /\ f = by_parent[x].feature
                                            /\ lhs[f] = by_parent[x].value
        THEN [ok |-> FALSE, err |-> "invalid rule"]
        ELSE [ok |-> TRUE, err |-> "none"]

(***************************************************************************)
(* greedy_match (ruleset.ts 1025-1058).  `start` and `end` are the code's  *)
(* 0-based indexes; str.slice(a, b) is SubSeq(str, a + 1, b).  `res` is a  *)
(* Set, which keeps insertion order and drops repeats.                     *)
(***************************************************************************)
slice(str, a, b) == SubSeq(str, a + 1, b)

\* Set.prototype.add on an insertion-ordered set.
set_add(res, x) == IF x \in Range(res) THEN res ELSE Append(res, x)

\* Mutant: the inner loop stops at the first member it finds (shortest match).
RECURSIVE greedy_inner_first(_, _, _, _, _)
greedy_inner_first(str, set, start, end, max_known_end) ==
    IF end > Len(str) THEN max_known_end
    ELSE IF slice(str, start, end) \in set THEN end
    ELSE greedy_inner_first(str, set, start, end + 1, max_known_end)

\* The inner loop (1040-1044): the last member found wins, i.e. the longest.
RECURSIVE greedy_inner(_, _, _, _, _)
greedy_inner(str, set, start, end, max_known_end) ==
    IF end > Len(str) THEN max_known_end
    ELSE greedy_inner(str, set, start, end + 1,
                      IF slice(str, start, end) \in set THEN end ELSE max_known_end)

\* The outer loop (1038-1052).
RECURSIVE greedy_outer(_, _, _, _, _)
greedy_outer(str, set, start, res, prev_end) ==
    IF ~(start < Len(str)) THEN [matches |-> res, max_known_end |-> prev_end]
    ELSE LET max_known_end == greedy_inner(str, set, start, start + 1, start)
         IN  IF max_known_end > start
             THEN greedy_outer(str, set, (max_known_end - 1) + 1,
                               set_add(res, slice(str, start, max_known_end)),
                               max_known_end)
             ELSE [matches |-> res, max_known_end |-> max_known_end]

greedy_match(str, set) ==
    LET r == greedy_outer(str, set, 0, <<>>, 0)
    IN  [matches |-> r.matches, remainder |-> slice(str, r.max_known_end, Len(str))]

(***************************************************************************)
(* Ruleset.modify_bundle and Ruleset.apply_rule (ruleset.ts 948-968).      *)
(* A ModifierRule is a Map keyed by FeatureBundle objects, i.e. by         *)
(* identity: it is a sequence of [lhs, rhs] pairs in insertion order.      *)
(***************************************************************************)
\* Mutant: the patch does not override a value the bundle already has.
modify_bundle_keeping(bundle, patch) ==
    [k \in (DOMAIN bundle) \cup (DOMAIN patch) |->
        IF k \in DOMAIN bundle THEN bundle[k] ELSE patch[k]]

modify_bundle(bundle, patch) ==
    [k \in (DOMAIN bundle) \cup (DOMAIN patch) |->
        IF k \in DOMAIN patch THEN patch[k] ELSE bundle[k]]

\* Line 960: every [feature_name, value] of lhs has bundle.get(feature_name) === value.
lhs_matches(lhs, bundle) ==
    \A feature_name \in DOMAIN lhs :
        feature_name \in DOMAIN bundle /\ bundle[feature_name] = lhs[feature_name]

RECURSIVE apply_rule_loop(_, _, _, _, _)
apply_rule_loop(rule, bundle, i, found_match, found_rhs) ==
    IF i > Len(rule)
    THEN [threw |-> FALSE, found_match |-> found_match, found_rhs |-> found_rhs]
    ELSE IF lhs_matches(rule[i].lhs, bundle)
    THEN IF found_match
         THEN [threw |-> TRUE, found_match |-> found_match, found_rhs |-> found_rhs]
         ELSE apply_rule_loop(rule, bundle, i + 1, TRUE, rule[i].rhs)
    ELSE apply_rule_loop(rule, bundle, i + 1, found_match, found_rhs)

\* Mutant: the last matching rule wins and nothing is thrown.
RECURSIVE apply_rule_last_wins_loop(_, _, _, _)
apply_rule_last_wins_loop(rule, bundle, i, acc) ==
    IF i > Len(rule) THEN acc
    ELSE apply_rule_last_wins_loop(rule, bundle, i + 1,
            IF lhs_matches(rule[i].lhs, bundle)
            THEN [ok |-> TRUE, err |-> "none", bundle |-> modify_bundle(bundle, rule[i].rhs)]
            ELSE acc)

apply_rule_last_wins(rule, bundle) ==
    apply_rule_last_wins_loop(rule, bundle, 1,
                              [ok |-> TRUE, err |-> "none", bundle |-> bundle])

apply_rule(rule, bundle) ==
    LET r == apply_rule_loop(rule, bundle, 1, FALSE, EmptyBundle)
    IN  IF r.threw THEN [ok |-> FALSE, err |-> "multiple matches"]
        ELSE IF ~r.found_match THEN [ok |-> TRUE, err |-> "none", bundle |-> bundle]
        ELSE [ok |-> TRUE, err |-> "none", bundle |-> modify_bundle(bundle, r.found_rhs)]

(***************************************************************************)
(* The rules file.  A line is the token list tokenize_line returns, kept   *)
(* as a record: cmd is line[0]; for a meta line, meta is line[1]; glyph is *)
(* the glyph; word is the alias name of an alias line and the value of a   *)
(* default line; lhs and rhs are the token lists left and right of the     *)
(* colon.  A feature token is the shorthand <sign><name>, the explicit     *)
(* <name>:<value>, or an alias reference *<name>; the tokens of a default  *)
(* line are bare feature names.                                            *)
(***************************************************************************)
RS_META == "__meta"
RS_BASE == "="
RS_BASE_DERIVED == "*="
RS_BASE_DERIVED_FULL == "derive"
RS_MOD_COMBINING == "^="
RS_MOD_SUFFIX == "=>"
RS_MOD_PREFIX == "<="

Short(sign, name) == [kind |-> "short", name |-> name, val |-> sign]
Long(name, val) == [kind |-> "long", name |-> name, val |-> val]
AliasRef(name) == [kind |-> "alias", name |-> name, val |-> ""]

Name(name) == [kind |-> "name", name |-> name, val |-> ""]

BaseLine(glyph, toks) ==
    [cmd |-> RS_BASE, meta |-> "", word |-> "", glyph |-> glyph,
     lhs |-> <<>>, rhs |-> toks]
ModLine(cmd, glyph, match, patch) ==
    [cmd |-> cmd, meta |-> "", word |-> "", glyph |-> glyph,
     lhs |-> match, rhs |-> patch]
DefaultLine(val, names) ==
    [cmd |-> RS_META, meta |-> "default", word |-> val, glyph |-> <<>>,
     lhs |-> <<>>, rhs |-> names]
AliasLine(name, toks) ==
    [cmd |-> RS_META, meta |-> "alias", word |-> name, glyph |-> <<>>,
     lhs |-> <<>>, rhs |-> toks]

\* __meta block <name>
BlockLine(name) ==
    [cmd |-> RS_META, meta |-> "block", word |-> name, glyph |-> <<>>,
     lhs |-> <<>>, rhs |-> <<>>]

\* *= <glyph> : <features>   or   derive <glyph> : <features>
DerivedLine(cmd, glyph, toks) ==
    [cmd |-> cmd, meta |-> "", word |-> "", glyph |-> glyph, lhs |-> <<>>, rhs |-> toks]

\* Ruleset.parse_feature_value: the long forms of the binary values.
parse_feature_value(fname) ==
    CASE fname = "false" -> "-"
      [] fname = "true"  -> "+"
      [] fname = "null"  -> "0"
      [] OTHER           -> fname

\* Ruleset.parse_feature: one feature:value token.
parse_feature(schema, by_name, tok) ==
    LET fval == IF tok.kind = "short" THEN tok.val ELSE parse_feature_value(tok.val)
    IN  IF tok.name \notin DOMAIN by_name
        THEN [ok |-> FALSE, err |-> "nonexistent feature", bundle |-> EmptyBundle]
        ELSE IF fval \notin DOMAIN node_values(schema, tok.name)
        THEN [ok |-> FALSE, err |-> "feature doesn't have value", bundle |-> EmptyBundle]
        ELSE [ok |-> TRUE, err |-> "none", bundle |-> (tok.name :> fval)]

\* Mutant: a reference to an alias that is not in the table stands for the
\* empty bundle.
parse_alias_lenient(als, tok) ==
    IF tok.name \notin DOMAIN als
    THEN [ok |-> TRUE, err |-> "none", bundle |-> EmptyBundle]
    ELSE [ok |-> TRUE, err |-> "none", bundle |-> als[tok.name]]

\* Ruleset.parse_alias.
parse_alias(als, tok) ==
    IF tok.name \notin DOMAIN als
    THEN [ok |-> FALSE, err |-> "unknown alias", bundle |-> EmptyBundle]
    ELSE [ok |-> TRUE, err |-> "none", bundle |-> als[tok.name]]

\* Ruleset.parse_feature_list: the tokens merged left to right into `bundle`.
RECURSIVE parse_feature_list_loop(_, _, _, _, _, _)
parse_feature_list_loop(schema, by_name, als, features, i, bundle) ==
    IF i > Len(features) THEN [ok |-> TRUE, err |-> "none", bundle |-> bundle]
    ELSE LET res == IF features[i].kind = "alias"
                    THEN parse_alias(als, features[i])
                    ELSE parse_feature(schema, by_name, features[i])
         IN  IF ~res.ok THEN res
             ELSE parse_feature_list_loop(schema, by_name, als, features, i + 1,
                                          modify_bundle(bundle, res.bundle))

\* Mutant: the defaults are laid over the tokens instead of under them.
parse_feature_list_defaults_last(schema, by_name, dflts, als, features, use_defaults) ==
    Let(parse_feature_list_loop(schema, by_name, als, features, 1, EmptyBundle),
        LAMBDA r : IF r.ok /\ use_defaults
                   THEN [r EXCEPT !.bundle = modify_bundle(@, dflts)]
                   ELSE r)

parse_feature_list(schema, by_name, dflts, als, features, use_defaults) ==
    parse_feature_list_loop(schema, by_name, als, features, 1,
                            IF use_defaults THEN dflts ELSE EmptyBundle)

(***************************************************************************)
(* The Ruleset under construction: the fields the constructor fills,       *)
(* together with the schema's top-level array, which parse_base hands to   *)
(* validate_bundle.  ok = FALSE once a line handler has thrown.            *)
(***************************************************************************)
NewRuleset(schema) ==
    [ok |-> TRUE, err |-> "none", Features |-> schema.Features,
     base_characters |-> EmptyBundle,
     mods_prefixal |-> <<>>, mods_combining |-> <<>>, mods_suffixal |-> <<>>,
     defaults |-> EmptyBundle, aliases |-> EmptyBundle]

Throw(rs, err) == [rs EXCEPT !.ok = FALSE, !.err = err]

\* The schema as the loader sees it now.
live_schema(schema, rs) == [schema EXCEPT !.Features = rs.Features]

\* Ruleset.parse_meta_default: defaults[feature] = value for every name.
RECURSIVE parse_meta_default_loop(_, _, _, _, _)
parse_meta_default_loop(schema, by_name, rs, line, i) ==
    IF i > Len(line.rhs) THEN rs
    ELSE LET feature_name == line.rhs[i].name
             feature_val == parse_feature_value(line.word)
         IN  IF feature_name \notin DOMAIN by_name
             THEN Throw(rs, "nonexistent feature in default")
             ELSE IF feature_val \notin DOMAIN node_values(live_schema(schema, rs), feature_name)
             THEN Throw(rs, "default value not permitted")
             ELSE parse_meta_default_loop(schema, by_name,
                     [rs EXCEPT !.defaults = modify_bundle(@, feature_name :> feature_val)],
                     line, i + 1)

parse_meta_default(schema, by_name, rs, line) ==
    parse_meta_default_loop(schema, by_name, rs, line, 1)

\* Ruleset.parse_meta_alias: the token list is parsed with use_defaults = true
\* (line 768) and stored under the alias name, replacing an earlier alias.
parse_meta_alias(schema, by_name, rs, line) ==
    LET r == parse_feature_list(live_schema(schema, rs), by_name, rs.defaults,
                                rs.aliases, line.rhs, TRUE)
    IN  IF ~r.ok THEN Throw(rs, r.err)
        ELSE [rs EXCEPT !.aliases =
                 [n \in (DOMAIN @) \cup {line.word} |->
                     IF n = line.word THEN r.bundle ELSE @[n]]]

\* Mutant: a block directive that is skipped like setalias.
parse_meta_block_ignored(rs) == rs

\* Ruleset.parse_meta_block.
parse_meta_block(rs) == Throw(rs, "block isn't supported yet")

\* Ruleset.parse_base_derived.
parse_base_derived(rs) == Throw(rs, "derived bases aren't supported yet")

\* Ruleset.parse_base: the bundle, seeded from the defaults, is validated
\* against the schema; validate_bundle leaves its stack in the schema.
parse_base(schema, by_name, rs, line) ==
    LET r == parse_feature_list(live_schema(schema, rs), by_name, rs.defaults,
                                rs.aliases, line.rhs, TRUE)
        v == validate_bundle(live_schema(schema, rs), r.bundle)
    IN  IF line.glyph \in DOMAIN rs.base_characters THEN Throw(rs, "duplicate base defn")
        ELSE IF Len(line.rhs) = 0 THEN Throw(rs, "invalid base defn")
        ELSE IF ~r.ok THEN Throw(rs, r.err)
        ELSE IF ~v.ok THEN Throw([rs EXCEPT !.Features = v.stack], v.err)
        ELSE [rs EXCEPT !.Features = v.stack,
                        !.base_characters = (line.glyph :> r.bundle) @@ @]

\* String.prototype.replace(c, ''): the first occurrence of c removed.
RECURSIVE remove_first(_, _)
remove_first(str, c) ==
    IF str = <<>> THEN <<>>
    ELSE IF Head(str) = c THEN Tail(str)
    ELSE <<Head(str)>> \o remove_first(Tail(str), c)

\* The placeholder base of a combining diacritic: "@" stands for U+25CC.
strip_placeholder(glyph) == remove_first(remove_first(glyph, "@"), "0")

\* Mutant: a later definition line moves its glyph to the end of the table.
add_rule_moving_to_end(mods, klass, glyph, match, patch) ==
    IF \E j \in DOMAIN mods : mods[j].glyph = glyph
    THEN LET old == mods[CHOOSE j \in DOMAIN mods : mods[j].glyph = glyph]
         IN  Append(SelectSeq(mods, LAMBDA m : m.glyph # glyph),
                    [old EXCEPT !.rules = Append(@, [lhs |-> match, rhs |-> patch])])
    ELSE Append(mods, [klass |-> klass, glyph |-> glyph,
                       rules |-> <<[lhs |-> match, rhs |-> patch]>>])

\* Mutant: rules keyed by the value of the match bundle, so that a line
\* whose match equals an earlier one's replaces that rule's patch.
add_rule_overwriting(mods, klass, glyph, match, patch) ==
    IF \E j \in DOMAIN mods : mods[j].glyph = glyph
    THEN [j \in DOMAIN mods |->
            IF mods[j].glyph # glyph THEN mods[j]
            ELSE IF \E k \in DOMAIN mods[j].rules : mods[j].rules[k].lhs = match
            THEN [mods[j] EXCEPT !.rules =
                    [k \in DOMAIN @ |-> IF @[k].lhs = match
                                         THEN [lhs |-> match, rhs |-> patch] ELSE @[k]]]
            ELSE [mods[j] EXCEPT !.rules = Append(@, [lhs |-> match, rhs |-> patch])]]
    ELSE Append(mods, [klass |-> klass, glyph |-> glyph,
                       rules |-> <<[lhs |-> match, rhs |-> patch]>>])

\* this[`mods_${klass}`]: has / set / get(glyph).rules.set(match, patch).
add_rule(mods, klass, glyph, match, patch) ==
    IF \E j \in DOMAIN mods : mods[j].glyph = glyph
    THEN [j \in DOMAIN mods |->
            IF mods[j].glyph = glyph
            THEN [mods[j] EXCEPT !.rules = Append(@, [lhs |-> match, rhs |-> patch])]
            ELSE mods[j]]
    ELSE Append(mods, [klass |-> klass, glyph |-> glyph,
                       rules |-> <<[lhs |-> match, rhs |-> patch]>>])

\* Ruleset._parse_mod.  The match and the patch are parsed and stored;
\* validate_modifier_rule is not called.
_parse_mod(schema, by_name, rs, line, klass) ==
    LET glyph == strip_placeholder(line.glyph)
        match == parse_feature_list(live_schema(schema, rs), by_name, rs.defaults,
                                    rs.aliases, line.lhs, FALSE)
        patch == parse_feature_list(live_schema(schema, rs), by_name, rs.defaults,
                                    rs.aliases, line.rhs, FALSE)
    IN  IF Len(glyph) = 0 \/ Len(line.lhs) = 0 THEN Throw(rs, "invalid diacritic defn")
        ELSE IF ~match.ok THEN Throw(rs, match.err)
        ELSE IF ~patch.ok THEN Throw(rs, patch.err)
        ELSE CASE klass = "prefixal" ->
                    [rs EXCEPT !.mods_prefixal =
                        add_rule(@, klass, glyph, match.bundle, patch.bundle)]
               [] klass = "combining" ->
                    [rs EXCEPT !.mods_combining =
                        add_rule(@, klass, glyph, match.bundle, patch.bundle)]
               [] klass = "suffixal" ->
                    [rs EXCEPT !.mods_suffixal =
                        add_rule(@, klass, glyph, match.bundle, patch.bundle)]

\* The constructor's first loop (694-713): the hoisted meta lines.
RECURSIVE hoist_metas(_, _, _, _, _)
hoist_metas(schema, by_name, rs, lines, i) ==
    IF ~rs.ok \/ i > Len(lines) THEN rs
    ELSE LET line == lines[i]
             next == IF line.cmd # RS_META THEN rs
                     ELSE CASE line.meta = "default"  -> parse_meta_default(schema, by_name, rs, line)
                            [] line.meta = "alias"    -> parse_meta_alias(schema, by_name, rs, line)
                            [] line.meta = "setalias" -> rs
                            [] line.meta = "block"    -> parse_meta_block(rs)
                            [] OTHER                  -> Throw(rs, "unknown meta command")
         IN  Let(next, LAMBDA after : hoist_metas(schema, by_name, after, lines, i + 1))

\* The constructor's second loop (722-732): base and modifier definitions.
RECURSIVE parse_definitions(_, _, _, _, _)
parse_definitions(schema, by_name, rs, lines, i) ==
    IF ~rs.ok \/ i > Len(lines) THEN rs
    ELSE LET line == lines[i]
             next == CASE line.cmd = RS_META          -> rs
                       [] line.cmd = RS_BASE          -> parse_base(schema, by_name, rs, line)
                       [] line.cmd = RS_BASE_DERIVED  -> parse_base_derived(rs)
                       [] line.cmd = RS_BASE_DERIVED_FULL -> parse_base_derived(rs)
                       [] line.cmd = RS_MOD_COMBINING -> _parse_mod(schema, by_name, rs, line, "combining")
                       [] line.cmd = RS_MOD_SUFFIX    -> _parse_mod(schema, by_name, rs, line, "suffixal")
                       [] line.cmd = RS_MOD_PREFIX    -> _parse_mod(schema, by_name, rs, line, "prefixal")
                       [] OTHER                       -> Throw(rs, "unknown command")
         IN  Let(next, LAMBDA after : parse_definitions(schema, by_name, after, lines, i + 1))

\* Ruleset.get_normalization_order: glyph -> index of its key in the table.
get_normalization_order(m) ==
    [g \in {m[j].glyph : j \in DOMAIN m} |->
        (CHOOSE j \in DOMAIN m : m[j].glyph = g) - 1]

\* Ruleset.constructor: both loops over the lines of the file.
construct(schema, by_name, lines) ==
    Let(hoist_metas(schema, by_name, NewRuleset(schema), lines, 1),
        LAMBDA hoisted : parse_definitions(schema, by_name, hoisted, lines, 1))

(***************************************************************************)
(* Segment and UnitSegment (ruleset.ts 488-640).  A SegmentModifiers set   *)
(* is an insertion-ordered Set of glyphs: a sequence without repeats.      *)
(***************************************************************************)
\* merge(s, ...ts): a copy of s with every t added.
RECURSIVE merge(_, _)
merge(s, ts) == IF ts = <<>> THEN s ELSE merge(set_add(s, Head(ts)), Tail(ts))

NewSegment == [units |-> <<>>, prefix_queue |-> <<>>]

\* Segment.add_prefixes.
add_prefixes(segment, prefixes) ==
    IF Len(segment.units) = 0
    THEN [segment EXCEPT !.prefix_queue = merge(@, prefixes)]
    ELSE [segment EXCEPT !.units[Len(segment.units)].prefixal_modifiers = merge(@, prefixes)]

\* Segment.add_base.
add_base(segment, base) ==
    [segment EXCEPT !.units = Append(@,
        [base |-> base,
         prefixal_modifiers |-> IF Len(segment.units) = 0 THEN segment.prefix_queue ELSE <<>>,
         combining_modifiers |-> <<>>,
         suffixal_modifiers |-> <<>>])]

RECURSIVE add_bases(_, _)
add_bases(segment, bases) ==
    IF bases = <<>> THEN segment
    ELSE add_bases(add_base(segment, Head(bases)), Tail(bases))

\* Segment.add_combinings (this.curr must exist).
add_combinings(segment, combinings) ==
    [segment EXCEPT !.units[Len(segment.units)].combining_modifiers = merge(@, combinings)]

\* Segment.add_suffixes (this.curr must exist).
add_suffixes(segment, suffixes) ==
    [segment EXCEPT !.units[Len(segment.units)].suffixal_modifiers = merge(@, suffixes)]

\* The keys of a modifier table.
glyphs_of(mods) == {mods[j].glyph : j \in DOMAIN mods}

\* RulesetModifiers.get(glyph).
mod_of(mods, glyph) == mods[CHOOSE j \in DOMAIN mods : mods[j].glyph = glyph]

(***************************************************************************)
(* Ruleset.parse_segment (924-946).  this.curr is undefined while the      *)
(* segment has no unit, so add_combinings throws a TypeError when the      *)
(* first pass of the loop has found no base character.                     *)
(***************************************************************************)
\* Mutant: a pass that consumed nothing is tried once more before the loop
\* gives up.
RECURSIVE parse_segment_loop_retrying(_, _, _)
parse_segment_loop_retrying(segment, remainder, lengths) ==
    LET last_remainder_length == Len(remainder)
        passes == Append(lengths, last_remainder_length)
    IN  Let(greedy_match(remainder, DOMAIN base_characters), LAMBDA b :
        Let(add_bases(segment, b.matches), LAMBDA with_bases :
        Let(greedy_match(b.remainder, glyphs_of(mods_combining)), LAMBDA c :
        Let(greedy_match(c.remainder, glyphs_of(mods_suffixal)), LAMBDA s :
            IF Len(with_bases.units) = 0
            THEN [ok |-> FALSE, err |-> "TypeError: curr is undefined",
                  segment |-> with_bases, lengths |-> passes]
            ELSE Let(add_suffixes(add_combinings(with_bases, c.matches), s.matches),
                     LAMBDA after :
                IF \/ last_remainder_length # Len(s.remainder)
                   \/ lengths = <<>>
                   \/ Last(lengths) # last_remainder_length
                THEN parse_segment_loop_retrying(after, s.remainder, passes)
                ELSE IF Len(s.remainder) > 0
                THEN [ok |-> FALSE, err |-> "Unable to fully featuralize",
                      segment |-> after, lengths |-> passes]
                ELSE [ok |-> TRUE, err |-> "none", segment |-> after,
                      lengths |-> passes])))))

\* The do-while loop of parse_segment.  `lengths` collects
\* last_remainder_length, the length of the remainder each pass starts with.
RECURSIVE parse_segment_loop(_, _, _)
parse_segment_loop(segment, remainder, lengths) ==
    LET last_remainder_length == Len(remainder)
        passes == Append(lengths, last_remainder_length)
    IN  Let(greedy_match(remainder, DOMAIN base_characters), LAMBDA b :
        Let(add_bases(segment, b.matches), LAMBDA with_bases :
        Let(greedy_match(b.remainder, glyphs_of(mods_combining)), LAMBDA c :
        Let(greedy_match(c.remainder, glyphs_of(mods_suffixal)), LAMBDA s :
            IF Len(with_bases.units) = 0
            THEN [ok |-> FALSE, err |-> "TypeError: curr is undefined",
                  segment |-> with_bases, lengths |-> passes]
            ELSE Let(add_suffixes(add_combinings(with_bases, c.matches), s.matches),
                     LAMBDA after :
                IF last_remainder_length # Len(s.remainder)
                THEN parse_segment_loop(after, s.remainder, passes)
                ELSE IF Len(after.units) = 0
                THEN [ok |-> FALSE, err |-> "No base char found", segment |-> after,
                      lengths |-> passes]
                ELSE IF Len(s.remainder) > 0
                THEN [ok |-> FALSE, err |-> "Unable to fully featuralize",
                      segment |-> after, lengths |-> passes]
                ELSE [ok |-> TRUE, err |-> "none", segment |-> after,
                      lengths |-> passes])))))

parse_segment(segment_raw) ==
    Let(greedy_match(segment_raw, glyphs_of(mods_prefixal)), LAMBDA p :
        parse_segment_loop(add_prefixes(NewSegment, p.matches), p.remainder, <<>>))

(***************************************************************************)
(* Ruleset.featuralize_unit (970-987).                                     *)
(***************************************************************************)
\* Mutant: the suffixal diacritics are applied before the combining ones.
TypeOrderSuffixalFirst == <<"prefixal", "suffixal", "combining">>

\* Line 975: the order of the loop over the modifier classes.
TypeOrder == <<"prefixal", "combining", "suffixal">>

\* unit[`${type}_modifiers`]
modifiers_of(unit, type) ==
    CASE type = "prefixal"  -> unit.prefixal_modifiers
      [] type = "combining" -> unit.combining_modifiers
      [] type = "suffixal"  -> unit.suffixal_modifiers

\* this[`mods_${type}`]
mods_of(type) ==
    CASE type = "prefixal"  -> mods_prefixal
      [] type = "combining" -> mods_combining
      [] type = "suffixal"  -> mods_suffixal

\* The diacritics of a unit in the order the two nested loops visit them.
unit_diacritics(unit) ==
    LET of_type(k) == [i \in 1..Len(modifiers_of(unit, TypeOrder[k])) |->
                          [type |-> TypeOrder[k],
                           diacritic |-> modifiers_of(unit, TypeOrder[k])[i]]]
    IN  of_type(1) \o of_type(2) \o of_type(3)

\* The loops of featuralize_unit.  `applied` records each apply_rule call:
\* the class and glyph of the diacritic and the bundle before and after.
RECURSIVE featuralize_unit_loop(_, _, _, _)
featuralize_unit_loop(diacritics, i, bundle, applied) ==
    IF i > Len(diacritics)
    THEN [ok |-> TRUE, err |-> "none", bundle |-> bundle, applied |-> applied]
    ELSE LET d == diacritics[i]
         IN  IF d.diacritic \notin glyphs_of(mods_of(d.type))
             THEN [ok |-> FALSE, err |-> "Undefined rule for diacritic",
                   bundle |-> bundle, applied |-> applied]
             ELSE Let(apply_rule(mod_of(mods_of(d.type), d.diacritic).rules, bundle),
                      LAMBDA r :
                      IF ~r.ok
                      THEN [ok |-> FALSE, err |-> r.err, bundle |-> bundle,
                            applied |-> applied]
                      ELSE featuralize_unit_loop(diacritics, i + 1, r.bundle,
                              Append(applied, [type |-> d.type, diacritic |-> d.diacritic,
                                               before |-> bundle, after |-> r.bundle])))

featuralize_unit(unit) ==
    IF unit.base \notin DOMAIN base_characters
    THEN [ok |-> FALSE, err |-> "Unknown base character", bundle |-> EmptyBundle,
          applied |-> <<>>]
    ELSE Let(unit_diacritics(unit), LAMBDA diacritics :
             featuralize_unit_loop(diacritics, 1, base_characters[unit.base], <<>>))

\* Mutant: a sort that hands the glyphs back in reverse.
sort_reversing(glyphs, order) ==
    [k \in DOMAIN glyphs |-> glyphs[Len(glyphs) + 1 - k]]

(***************************************************************************)
(* Normalization (527-557, 618-633).                                       *)
(***************************************************************************)
\* [...modifiers].sort(compare_fn): the glyphs by ascending order index.
RECURSIVE sort_by_order(_, _)
sort_by_order(glyphs, order) ==
    IF glyphs = <<>> THEN <<>>
    ELSE LET least == CHOOSE i \in DOMAIN glyphs :
                          \A j \in DOMAIN glyphs :
                              \/ order[glyphs[i]] < order[glyphs[j]]
                              \/ (order[glyphs[i]] = order[glyphs[j]] /\ i <= j)
         IN  <<glyphs[least]>>
                 \o sort_by_order([k \in 1..(Len(glyphs) - 1) |->
                                      IF k < least THEN glyphs[k] ELSE glyphs[k + 1]],
                                  order)

\* UnitSegment.get_normalized.
unit_get_normalized(unit) ==
    [base |-> unit.base,
     prefixal_modifiers |-> sort_by_order(unit.prefixal_modifiers, mods_prefixal_order),
     combining_modifiers |-> sort_by_order(unit.combining_modifiers, mods_combining_order),
     suffixal_modifiers |-> sort_by_order(unit.suffixal_modifiers, mods_suffixal_order)]

\* Mutant: a set_eq that ignores the insertion order.
set_eq_unordered(s1, s2) == Len(s1) = Len(s2) /\ Range(s1) = Range(s2)

\* util.set_eq: same size and the same elements in the same insertion order.
set_eq(s1, s2) ==
    /\ Len(s1) = Len(s2)
    /\ \A i \in DOMAIN s1 : s1[i] = s2[i]

\* UnitSegment.eq.
unit_eq(u, s) ==
    /\ u.base = s.base
    /\ set_eq(u.prefixal_modifiers, s.prefixal_modifiers)
    /\ set_eq(u.combining_modifiers, s.combining_modifiers)
    /\ set_eq(u.suffixal_modifiers, s.suffixal_modifiers)

\* Segment.get_normalized.
get_normalized(segment) ==
    [units |-> [i \in DOMAIN segment.units |-> unit_get_normalized(segment.units[i])],
     prefix_queue |-> <<>>]

\* Segment.is_normalized.
is_normalized(segment) ==
    LET norm == get_normalized(segment)
    IN  /\ Len(norm.units) = Len(segment.units)
        /\ \A i \in DOMAIN segment.units : unit_eq(segment.units[i], norm.units[i])

\* Array.prototype.join('') of an array of strings.
RECURSIVE join(_)
join(strs) == IF strs = <<>> THEN <<>> ELSE Head(strs) \o join(Tail(strs))

\* UnitSegment.raw.
unit_raw(unit) ==
    join(unit.prefixal_modifiers) \o unit.base
        \o join(unit.combining_modifiers) \o join(unit.suffixal_modifiers)

\* Segment.raw.
segment_raw_of(segment) ==
    join([i \in DOMAIN segment.units |-> unit_raw(segment.units[i])])

\* TemporalFeatureBundle.fromArray: the per-unit bundles in unit order.
TemporalFeatureBundle_fromArray(features_arr) == features_arr

\* TemporalFeatureBundle.eq: the same bundles unit by unit.
TemporalFeatureBundle_eq(a, b) == a = b

(***************************************************************************)
(* Ruleset.featuralize (998-1017).  `depth` is the number of nested calls  *)
(* the stack still has room for.  `warns` are the warnings the call        *)
(* pushed, also when it then threw.                                        *)
(***************************************************************************)
RECURSIVE featuralize_units(_, _, _)
featuralize_units(units, i, acc) ==
    IF i > Len(units) THEN acc
    ELSE Let(featuralize_unit(units[i]), LAMBDA r :
             IF ~r.ok THEN [acc EXCEPT !.ok = FALSE, !.err = r.err]
             ELSE featuralize_units(units, i + 1,
                     [acc EXCEPT !.features_arr = Append(@, r.bundle),
                                 !.applied = Append(@, r.applied)]))

RECURSIVE featuralize(_, _)
featuralize(segment_raw, depth) ==
    LET failed(err, warns) == [ok |-> FALSE, err |-> err, features |-> <<>>,
                               warns |-> warns, applied |-> <<>>]
    IN  IF depth = 0 THEN failed("RangeError: call stack exceeded", <<>>)
        ELSE Let(parse_segment(segment_raw), LAMBDA parsed :
        IF ~parsed.ok THEN failed(parsed.err, <<>>)
        ELSE Let(featuralize_units(parsed.segment.units, 1,
                     [ok |-> TRUE, err |-> "none", features_arr |-> <<>>,
                      applied |-> <<>>]), LAMBDA units :
        IF ~units.ok THEN failed(units.err, <<>>)
        ELSE Let(TemporalFeatureBundle_fromArray(units.features_arr), LAMBDA features :
        IF is_normalized(parsed.segment)
        THEN [ok |-> TRUE, err |-> "none", features |-> features, warns |-> <<>>,
              applied |-> units.applied]
        ELSE Let(featuralize(segment_raw_of(get_normalized(parsed.segment)), depth - 1),
                 LAMBDA inner :
             LET warned == <<"not normalized">> \o inner.warns
             IN  IF ~inner.ok THEN failed(inner.err, warned)
                 ELSE [ok |-> TRUE, err |-> "none", features |-> features,
                       warns |-> IF TemporalFeatureBundle_eq(features, inner.features)
                                 THEN warned
                                 ELSE Append(warned, "normalization affects featuralization"),
                       applied |-> units.applied]))))

(***************************************************************************)
(* Values shared by the specifications.                                    *)
(***************************************************************************)
NoCall == [op |-> "none"]
NoRet == [ok |-> TRUE, err |-> "none"]
Pending == [ok |-> FALSE, err |-> "pending"]

\* The Ruleset before any rules file has been read.
RulesetUnloaded ==
    /\ lifecycle = "unloaded"
    /\ base_characters = EmptyBundle
    /\ mods_prefixal = <<>>
    /\ mods_combining = <<>>
    /\ mods_suffixal = <<>>
    /\ mods_prefixal_order = EmptyBundle
    /\ mods_combining_order = EmptyBundle
    /\ mods_suffixal_order = EmptyBundle
    /\ defaults = EmptyBundle
    /\ aliases = EmptyBundle

\* No Psegmentizer has been constructed.
NoBatch ==
    /\ segments_raw = <<>>
    /\ segments_featuralized = EmptyBundle

\* new FeatureSchema(path) for one of the schema trees.
SchemaLoaded(tree) ==
    /\ raw_schema = tree
    /\ features_by_name = build_features_by_name(tree)
    /\ features_by_parent = build_features_by_parent(tree)

\* The caller takes the result of the last call.  Nothing in the repository
\* catches an exception, so a call that threw ends the run: there is no
\* next call after it.
Return ==
    /\ call.op # "none"
    /\ ret.ok
    /\ call' = NoCall
    /\ ret' = NoRet
    /\ UNCHANGED <<schema_vars, ruleset_vars, batch_vars, warnings>>

(***************************************************************************)
(* SpecSchema: a loaded FeatureSchema and calls of its public methods.     *)
(***************************************************************************)
MaxRuleSize == 2

\* Bundles offered to validate_bundle: any subset of the features, with a
\* value that no feature permits ("0") among the candidates.
AnyBundles == PartialMaps(FeatureNames, {"+", "-", "0"})

\* Match and patch bundles as parse_feature_list builds them: permitted
\* values only.
RuleBundles ==
    UNION {[D -> {"+", "-"}] :
              D \in {E \in SUBSET FeatureNames : Cardinality(E) <= MaxRuleSize}}

\* Base bundles offered to apply_modifier: any subset of the features with
\* permitted values.
BaseBundles == PartialMaps(FeatureNames, {"+", "-"})

InitSchema ==
    /\ \E tree \in Schemas : SchemaLoaded(tree)
    /\ RulesetUnloaded
    /\ warnings = <<>>
    /\ NoBatch
    /\ call = NoCall
    /\ ret = NoRet

ValidateBundle ==
    /\ call.op = "none"
    /\ \E bundle \in AnyBundles :
          LET r == validate_bundle(raw_schema, bundle)
          IN  /\ raw_schema' = [raw_schema EXCEPT !.Features = r.stack]
              /\ call' = [op |-> "validate_bundle", bundle |-> bundle]
              /\ ret' = [ok |-> r.ok, err |-> r.err]
    /\ UNCHANGED <<features_by_name, features_by_parent, ruleset_vars, batch_vars, warnings>>

ValidateModifierRule ==
    /\ call.op = "none"
    /\ \E lhs \in RuleBundles, rhs \in RuleBundles :
          /\ call' = [op |-> "validate_modifier_rule", lhs |-> lhs, rhs |-> rhs]
          /\ ret' = validate_modifier_rule(raw_schema, features_by_name,
                                           features_by_parent, lhs, rhs)
    /\ UNCHANGED <<schema_vars, ruleset_vars, batch_vars, warnings>>

\* schema.apply_modifier(base, modifier) on bundles of permitted values.
ApplyModifier ==
    /\ call.op = "none"
    /\ \E base \in BaseBundles, modifier \in RuleBundles :
          \E r \in {apply_modifier(raw_schema, base, modifier)} :
              /\ raw_schema' = [raw_schema EXCEPT !.Features = r.stack]
              /\ call' = [op |-> "apply_modifier", base |-> base, modifier |-> modifier]
              /\ ret' = [ok |-> r.ok, err |-> r.err, bundle |-> r.bundle]
    /\ UNCHANGED <<features_by_name, features_by_parent, ruleset_vars, batch_vars, warnings>>

NextSchema == ValidateBundle \/ ValidateModifierRule \/ ApplyModifier \/ Return

SpecSchema == InitSchema /\ [][NextSchema]_vars

(***************************************************************************)
(* What the claims about the schema speak of, stated on the tree as it was *)
(* loaded: the parent index is built once and never written again, so the  *)
(* top-level features are the ones it files under the Root.                *)
(***************************************************************************)
TopLevel == {c \in DOMAIN features_by_parent : features_by_parent[c] = RootParent}

HasPermittedEntry(bundle, f) ==
    f \in DOMAIN bundle /\ bundle[f] \in DOMAIN raw_schema.values[f]

\* The features reachable from S under the bundle's own choices.
RECURSIVE ReachableFrom(_, _)
ReachableFrom(S, bundle) ==
    LET more == UNION {Range(raw_schema.values[f][bundle[f]]) :
                          f \in {g \in S : HasPermittedEntry(bundle, g)}}
    IN  IF more \subseteq S THEN S ELSE ReachableFrom(S \cup more, bundle)

Reachable(bundle) == ReachableFrom(TopLevel, bundle)

Comprehensive(bundle) == \A f \in Reachable(bundle) : HasPermittedEntry(bundle, f)

\* The bundle without its entries for features that are not reachable.
WithoutUnreachable(bundle) == [f \in (DOMAIN bundle) \cap Reachable(bundle) |-> bundle[f]]

\* C5: validate_bundle accepts a bundle iff every feature reachable from the
\* top-level features under the bundle's own choices has an entry with a
\* permitted value.
C5_AcceptsIffComprehensive ==
    call.op = "validate_bundle" => (ret.ok <=> Comprehensive(call.bundle))

\* C6 (as claimed): validate_bundle rejects a bundle that has an entry for a
\* feature that is not reachable under the bundle's own choices.
C6_UnreachableEntryRejected ==
    (call.op = "validate_bundle" /\ WithoutUnreachable(call.bundle) # call.bundle)
        => ~ret.ok

\* C6 (amended): an entry for an unreachable feature never makes
\* validate_bundle reject: a call accepts the bundle whenever the same call
\* would accept the bundle without its unreachable entries.
C6_UnreachableEntryIgnored ==
    [][(call'.op = "validate_bundle"
          /\ validate_bundle(raw_schema, WithoutUnreachable(call'.bundle)).ok)
        => ret'.ok]_vars

\* C6 witness: on the Hayes tree, {-coronal, -anterior, +labial, -voice} is
\* accepted although anterior is not reachable under -coronal.
C6_Witness ==
    /\ call.op = "validate_bundle"
    /\ raw_schema.values = SchemaHayes.values
    /\ call.bundle = [coronal |-> "-", anterior |-> "-", labial |-> "+", voice |-> "-"]
    /\ ret.ok

\* The condition of C9 for one patch feature x, given the match bundle.
PatchFeatureJustified(lhs, x) ==
    \/ x \in TopLevel
    \/ x \in DOMAIN lhs
    \/ \E f \in DOMAIN lhs : features_by_parent[f] = features_by_parent[x]
    \/ \E f \in DOMAIN lhs : /\ f = features_by_parent[x].feature
                             /\ lhs[f] = features_by_parent[x].value

\* C9: validate_modifier_rule accepts (match, patch) iff every patch feature
\* is a child of the root, a match feature, a sibling of a match feature, or
\* has its parent in the match with the gating value; the schema's history
\* (earlier validate_bundle calls) plays no part in the verdict.
C9_AcceptsIffJustified ==
    call.op = "validate_modifier_rule"
        => (ret.ok <=> \A x \in DOMAIN call.rhs : PatchFeatureJustified(call.lhs, x))

\* C11: apply_modifier fails when the patch has a feature for which the base
\* bundle has no entry; it never returns a bundle with a feature that was
\* only in the patch.
C11_PatchOnlyFeatureFails ==
    (call.op = "apply_modifier" /\ (DOMAIN call.modifier) \ (DOMAIN call.base) # {})
        => ~ret.ok

(***************************************************************************)
(* SpecGreedy: greedy_match applied to every string up to MaxLen over      *)
(* Chars and every set of the glyphs below.                                *)
(***************************************************************************)
MaxLen == 3

Chars == {"t", "s", "h"}

Strings == SeqsUpTo(Chars, MaxLen)

GreedyGlyphs == {<<"t">>, <<"s">>, <<"t", "s">>, <<"h">>, <<"s", "h">>, <<"t", "s", "h">>}

InitGreedy ==
    /\ SchemaLoaded(SchemaHayes)
    /\ RulesetUnloaded
    /\ warnings = <<>>
    /\ NoBatch
    /\ call \in [op : {"greedy_match"}, str : Strings, set : SUBSET GreedyGlyphs]
    /\ ret = Pending

GreedyMatch ==
    /\ call.op = "greedy_match"
    /\ ret = Pending
    /\ ret' = greedy_match(call.str, call.set)
    /\ UNCHANGED <<schema_vars, ruleset_vars, batch_vars, warnings, call>>

NextGreedy == GreedyMatch

SpecGreedy == InitGreedy /\ [][NextGreedy]_vars

\* The length of the longest member of `set` that starts at 0-based position
\* p of str, 0 when no member starts there.
LongestAt(str, set, p) ==
    LET lens == {n \in 1..(Len(str) - p) : SubSeq(str, p + 1, p + n) \in set}
    IN  IF lens = {} THEN 0 ELSE CHOOSE n \in lens : \A m \in lens : m <= n

\* The longest-match tokens from position p on, up to the first position
\* where no member starts.
RECURSIVE LongestTokens(_, _, _)
LongestTokens(str, set, p) ==
    IF LongestAt(str, set, p) = 0 THEN <<>>
    ELSE <<SubSeq(str, p + 1, p + LongestAt(str, set, p))>>
             \o LongestTokens(str, set, p + LongestAt(str, set, p))

RECURSIVE TotalLen(_)
TotalLen(toks) == IF toks = <<>> THEN 0 ELSE Len(Head(toks)) + TotalLen(Tail(toks))

\* The distinct elements of a sequence in order of first occurrence.
RECURSIVE FirstOccurrences(_)
FirstOccurrences(toks) ==
    IF toks = <<>> THEN <<>>
    ELSE LET front == FirstOccurrences(Front(toks))
         IN  IF Last(toks) \in Range(front) THEN front ELSE Append(front, Last(toks))

\* C1: greedy_match is longest-match.  Its matches are the longest members
\* starting at each scan position (each recorded once, in order of first
\* occurrence), the scan stops at the first position where no member starts,
\* and the remainder is exactly the unscanned suffix.
C1_GreedyIsLongestMatch ==
    (call.op = "greedy_match" /\ ret # Pending) =>
        LET toks == LongestTokens(call.str, call.set, 0)
            stop == TotalLen(toks)
        IN  /\ ret.matches = FirstOccurrences(toks)
            /\ ret.remainder = SubSeq(call.str, stop + 1, Len(call.str))
            /\ LongestAt(call.str, call.set, stop) = 0

\* C1 witness: set {ts, t, s} and input "ts" give the single match "ts".
C1_Witness ==
    /\ call.op = "greedy_match"
    /\ call.str = <<"t", "s">>
    /\ call.set = {<<"t", "s">>, <<"t">>, <<"s">>}
    /\ ret = [matches |-> << <<"t", "s">> >>, remainder |-> <<>>]

(***************************************************************************)
(* SpecRule: apply_rule applied to every sequence of up to MaxRules rules  *)
(* of the menu and every working bundle over RuleFeatures.                 *)
(***************************************************************************)
MaxRules == 3

RuleFeatures == {"coronal", "anterior", "voice"}

WorkingBundles == PartialMaps(RuleFeatures, {"+", "-"})

RuleMenu ==
    {[lhs |-> [voice |-> "+"],                   rhs |-> [voice |-> "-"]],
     [lhs |-> [voice |-> "+"],                   rhs |-> [anterior |-> "+"]],
     [lhs |-> [coronal |-> "-"],                 rhs |-> [coronal |-> "+", anterior |-> "+"]],
     [lhs |-> [coronal |-> "-", voice |-> "+"],  rhs |-> [coronal |-> "+"]],
     [lhs |-> [coronal |-> "+", anterior |-> "-"], rhs |-> [anterior |-> "+"]],
     [lhs |-> [voice |-> "-"],                   rhs |-> EmptyBundle]}

InitRule ==
    /\ SchemaLoaded(SchemaHayes)
    /\ RulesetUnloaded
    /\ warnings = <<>>
    /\ NoBatch
    /\ call \in [op : {"apply_rule"}, rule : SeqsUpTo(RuleMenu, MaxRules),
                 bundle : WorkingBundles]
    /\ ret = Pending

ApplyRule ==
    /\ call.op = "apply_rule"
    /\ ret = Pending
    /\ ret' = apply_rule(call.rule, call.bundle)
    /\ UNCHANGED <<schema_vars, ruleset_vars, batch_vars, warnings, call>>

NextRule == ApplyRule

SpecRule == InitRule /\ [][NextRule]_vars

\* A rule matches when every feature:value pair of its match bundle equals
\* the working bundle's entry; an absent feature never matches.
RuleMatches(r, bundle) ==
    \A f \in DOMAIN r.lhs : f \in DOMAIN bundle /\ bundle[f] = r.lhs[f]

MatchingRules(rule, bundle) == {i \in DOMAIN rule : RuleMatches(rule[i], bundle)}

\* C3: when two or more rules of the diacritic match the working bundle,
\* apply_rule throws the ambiguous-rule error and returns no bundle, wherever
\* the matching rules stand in the rule list.
C3_AmbiguousRuleThrows ==
    (call.op = "apply_rule" /\ ret # Pending
        /\ Cardinality(MatchingRules(call.rule, call.bundle)) >= 2)
        => (~ret.ok /\ ret.err = "multiple matches" /\ "bundle" \notin DOMAIN ret)

\* C3 witness: [+voice : -voice] and [-coronal +voice : +coronal] both match
\* {-coronal, +voice}, the more specific rule defined first.
C3_Witness ==
    /\ call.op = "apply_rule"
    /\ call.rule = <<[lhs |-> [coronal |-> "-", voice |-> "+"], rhs |-> [coronal |-> "+"]],
                     [lhs |-> [voice |-> "+"], rhs |-> [voice |-> "-"]]>>
    /\ call.bundle = [coronal |-> "-", voice |-> "+"]
    /\ ret = [ok |-> FALSE, err |-> "multiple matches"]

\* C4: with no matching rule the result is the working bundle; with exactly
\* one, the result has the patch's value for every feature of the patch and
\* the working bundle's value for every other feature.
C4_ApplyRuleResult ==
    (call.op = "apply_rule" /\ ret # Pending) =>
        LET hits == MatchingRules(call.rule, call.bundle)
        IN  /\ hits = {} => (ret.ok /\ ret.bundle = call.bundle)
            /\ Cardinality(hits) = 1 =>
                 LET patch == call.rule[CHOOSE i \in hits : TRUE].rhs
                 IN  /\ ret.ok
                     /\ DOMAIN ret.bundle = (DOMAIN call.bundle) \cup (DOMAIN patch)
                     /\ \A f \in DOMAIN patch : ret.bundle[f] = patch[f]
                     /\ \A f \in (DOMAIN call.bundle) \ (DOMAIN patch) :
                            ret.bundle[f] = call.bundle[f]

\* C4 witness: the devoicing rule is the only match on {+coronal, +voice}
\* among three rules and flips voice to "-".
C4_Witness ==
    /\ call.op = "apply_rule"
    /\ call.rule = <<[lhs |-> [coronal |-> "-"], rhs |-> [coronal |-> "+", anterior |-> "+"]],
                     [lhs |-> [voice |-> "+"], rhs |-> [voice |-> "-"]],
                     [lhs |-> [voice |-> "-"], rhs |-> EmptyBundle]>>
    /\ call.bundle = [coronal |-> "+", voice |-> "+"]
    /\ ret.ok
    /\ ret.bundle = [coronal |-> "+", voice |-> "-"]

(***************************************************************************)
(* SpecLoad: new Ruleset(path, schema) on every rules file of up to        *)
(* MaxLines lines drawn from LineMenu, against the Hayes-style schema.     *)
(***************************************************************************)
MaxLines == 3

LineMenu ==
    {\* = p : +labial -coronal -voice
     BaseLine(<<"p">>, <<Short("+", "labial"), Short("-", "coronal"), Short("-", "voice")>>),
     \* = b : *lab voice:true
     BaseLine(<<"b">>, <<AliasRef("lab"), Long("voice", "true")>>),
     \* = t : -labial +coronal -voice          (no anterior, no distributed)
     BaseLine(<<"t">>, <<Short("-", "labial"), Short("+", "coronal"), Short("-", "voice")>>),
     \* = s : -labial +coronal +anterior -distributed
     BaseLine(<<"s">>, <<Short("-", "labial"), Short("+", "coronal"),
                         Short("+", "anterior"), Short("-", "distributed")>>),
     \* ^= @o +voice : -voice
     ModLine(RS_MOD_COMBINING, <<"@", "o">>, <<Short("+", "voice")>>, <<Short("-", "voice")>>),
     \* => h +labial : -anterior
     ModLine(RS_MOD_SUFFIX, <<"h">>, <<Short("+", "labial")>>, <<Short("-", "anterior")>>),
     \* => h +coronal : -anterior
     ModLine(RS_MOD_SUFFIX, <<"h">>, <<Short("+", "coronal")>>, <<Short("-", "anterior")>>),
     \* => j -voice : +voice
     ModLine(RS_MOD_SUFFIX, <<"j">>, <<Short("-", "voice")>>, <<Short("+", "voice")>>),
     \* <= n -voice : +voice
     ModLine(RS_MOD_PREFIX, <<"n">>, <<Short("-", "voice")>>, <<Short("+", "voice")>>),
     \* __meta default false : voice
     DefaultLine("false", <<Name("voice")>>),
     \* __meta default true : voice
     DefaultLine("true", <<Name("voice")>>),
     \* __meta alias lab : +labial -coronal
     AliasLine("lab", <<Short("+", "labial"), Short("-", "coronal")>>),
     \* __meta alias lv : *lab +voice
     AliasLine("lv", <<AliasRef("lab"), Short("+", "voice")>>),
     \* __meta block stops
     BlockLine("stops"),
     \* *= d : +voice
     DerivedLine(RS_BASE_DERIVED, <<"d">>, <<Short("+", "voice")>>),
     \* derive d : +voice
     DerivedLine(RS_BASE_DERIVED_FULL, <<"d">>, <<Short("+", "voice")>>)}

RulesFiles == SeqsUpTo(LineMenu, MaxLines)

InitLoad ==
    /\ SchemaLoaded(SchemaHayes)
    /\ RulesetUnloaded
    /\ warnings = <<>>
    /\ NoBatch
    /\ call = NoCall
    /\ ret = NoRet

\* new Ruleset(path, feature_schema).  When a line handler throws there is no
\* Ruleset object; what validate_bundle did to the schema stays done.
Loaded(lines) ==
    \E rs \in {construct(raw_schema, features_by_name, lines)} :
        /\ raw_schema' = [raw_schema EXCEPT !.Features = rs.Features]
        /\ UNCHANGED <<features_by_name, features_by_parent>>
        /\ ret' = [ok |-> rs.ok, err |-> rs.err]
        /\ IF rs.ok
           THEN /\ lifecycle' = "ready"
                /\ base_characters' = rs.base_characters
                /\ mods_prefixal' = rs.mods_prefixal
                /\ mods_combining' = rs.mods_combining
                /\ mods_suffixal' = rs.mods_suffixal
                /\ mods_prefixal_order' = get_normalization_order(rs.mods_prefixal)
                /\ mods_combining_order' = get_normalization_order(rs.mods_combining)
                /\ mods_suffixal_order' = get_normalization_order(rs.mods_suffixal)
                /\ defaults' = rs.defaults
                /\ aliases' = rs.aliases
           ELSE /\ lifecycle' = "failed"
                /\ UNCHANGED <<base_characters, mods_prefixal, mods_combining,
                               mods_suffixal, mods_prefixal_order, mods_combining_order,
                               mods_suffixal_order, defaults, aliases>>

Construct ==
    /\ lifecycle = "unloaded"
    /\ \E lines \in RulesFiles :
          /\ call' = [op |-> "Ruleset", lines |-> lines]
          /\ Loaded(lines)
    /\ UNCHANGED <<batch_vars, warnings>>

NextLoad == Construct

SpecLoad == InitLoad /\ [][NextLoad]_vars

\* The three modifier tables of the Ruleset.
ModTables == <<mods_prefixal, mods_combining, mods_suffixal>>

\* C7: in every successfully loaded Ruleset every base character, the first
\* one defined and every later one, has a comprehensive bundle; a base line
\* whose bundle lacks a reachable feature makes the load fail.
C7_BasesComprehensive ==
    lifecycle = "ready" =>
        \A g \in DOMAIN base_characters : Comprehensive(base_characters[g])

\* C8: no Ruleset is produced that holds a modifier rule whose patch names a
\* feature that is not reachable given its match bundle.
C8_NoUnreachablePatchLoaded ==
    lifecycle = "ready" =>
        \A t \in DOMAIN ModTables : \A j \in DOMAIN ModTables[t] :
            \A k \in DOMAIN ModTables[t][j].rules :
                LET r == ModTables[t][j].rules[k]
                IN  \A x \in DOMAIN r.rhs : PatchFeatureJustified(r.lhs, x)

(***************************************************************************)
(* SpecFeat: a Ruleset built from one of two rules files, and calls of     *)
(* featuralize on every string of up to MaxSegLen characters.              *)
(***************************************************************************)
MaxSegLen == 4
MaxDepth == 3
MaxWarnings == 2

SegChars == {"b", "t", "s", "n", "o", "h", "j"}

Segments == SeqsUpTo(SegChars, MaxSegLen)

\* A rules file in the style of featuresets/simple.rule: three bases (one of
\* two characters), a prefix, a combining mark and two suffixes.
FileSimple ==
    <<\* = b : +labial -coronal +voice
      BaseLine(<<"b">>, <<Short("+", "labial"), Short("-", "coronal"), Short("+", "voice")>>),
      \* = t : -labial +coronal +anterior -distributed -voice
      BaseLine(<<"t">>, <<Short("-", "labial"), Short("+", "coronal"), Short("+", "anterior"),
                          Short("-", "distributed"), Short("-", "voice")>>),
      \* = ts : -labial +coronal +anterior +distributed -voice
      BaseLine(<<"t", "s">>, <<Short("-", "labial"), Short("+", "coronal"),
                               Short("+", "anterior"), Short("+", "distributed"),
                               Short("-", "voice")>>),
      \* <= n -voice : +voice
      ModLine(RS_MOD_PREFIX, <<"n">>, <<Short("-", "voice")>>, <<Short("+", "voice")>>),
      \* ^= @o +voice : -voice
      ModLine(RS_MOD_COMBINING, <<"@", "o">>, <<Short("+", "voice")>>, <<Short("-", "voice")>>),
      \* => h -voice : -labial
      ModLine(RS_MOD_SUFFIX, <<"h">>, <<Short("-", "voice")>>, <<Short("-", "labial")>>),
      \* => j +coronal : -anterior
      ModLine(RS_MOD_SUFFIX, <<"j">>, <<Short("+", "coronal")>>, <<Short("-", "anterior")>>)>>

\* A rules file whose diacritics interact: h has two rules that can both
\* match, h can turn a non-coronal into a coronal, and the result of two
\* suffixes or two combining marks depends on their order.
FileQuirks ==
    <<\* = s : +labial -coronal -voice
      BaseLine(<<"s">>, <<Short("+", "labial"), Short("-", "coronal"), Short("-", "voice")>>),
      \* = b : +labial -coronal +voice
      BaseLine(<<"b">>, <<Short("+", "labial"), Short("-", "coronal"), Short("+", "voice")>>),
      \* => j -voice : +voice
      ModLine(RS_MOD_SUFFIX, <<"j">>, <<Short("-", "voice")>>, <<Short("+", "voice")>>),
      \* => h -coronal : +coronal
      ModLine(RS_MOD_SUFFIX, <<"h">>, <<Short("-", "coronal")>>, <<Short("+", "coronal")>>),
      \* => h +voice : -voice
      ModLine(RS_MOD_SUFFIX, <<"h">>, <<Short("+", "voice")>>, <<Short("-", "voice")>>),
      \* ^= @o +labial : -labial
      ModLine(RS_MOD_COMBINING, <<"@", "o">>, <<Short("+", "labial")>>, <<Short("-", "labial")>>),
      \* ^= @n -labial : +voice
      ModLine(RS_MOD_COMBINING, <<"@", "n">>, <<Short("-", "labial")>>, <<Short("+", "voice")>>)>>

\* A rules file whose glyphs overlap: the base ts begins with the base t and
\* ends with the suffix s, which is defined before the suffix h.
FileOverlap ==
    <<\* = t : -labial +coronal +anterior -distributed -voice
      BaseLine(<<"t">>, <<Short("-", "labial"), Short("+", "coronal"), Short("+", "anterior"),
                          Short("-", "distributed"), Short("-", "voice")>>),
      \* = ts : -labial +coronal +anterior +distributed -voice
      BaseLine(<<"t", "s">>, <<Short("-", "labial"), Short("+", "coronal"),
                               Short("+", "anterior"), Short("+", "distributed"),
                               Short("-", "voice")>>),
      \* => s +coronal : -anterior
      ModLine(RS_MOD_SUFFIX, <<"s">>, <<Short("+", "coronal")>>, <<Short("-", "anterior")>>),
      \* => h -voice : +voice
      ModLine(RS_MOD_SUFFIX, <<"h">>, <<Short("-", "voice")>>, <<Short("+", "voice")>>)>>

FeatFiles == {FileSimple, FileQuirks, FileOverlap}

\* The state new Ruleset(path, feature_schema) leaves behind for a rules
\* file that loads.
Constructed(lines) ==
    \E rs \in {construct(SchemaHayes, build_features_by_name(SchemaHayes), lines)} :
        /\ rs.ok
        /\ raw_schema = [SchemaHayes EXCEPT !.Features = rs.Features]
        /\ features_by_name = build_features_by_name(SchemaHayes)
        /\ features_by_parent = build_features_by_parent(SchemaHayes)
        /\ lifecycle = "ready"
        /\ base_characters = rs.base_characters
        /\ mods_prefixal = rs.mods_prefixal
        /\ mods_combining = rs.mods_combining
        /\ mods_suffixal = rs.mods_suffixal
        /\ mods_prefixal_order = get_normalization_order(rs.mods_prefixal)
        /\ mods_combining_order = get_normalization_order(rs.mods_combining)
        /\ mods_suffixal_order = get_normalization_order(rs.mods_suffixal)
        /\ defaults = rs.defaults
        /\ aliases = rs.aliases

InitFeat ==
    /\ \E lines \in FeatFiles : Constructed(lines)
    /\ warnings = <<>>
    /\ NoBatch
    /\ call = NoCall
    /\ ret = NoRet

\* ruleset.featuralize(segment_raw), as the batch loop of psegmentizer calls
\* it for one segment after another.
Featuralize ==
    /\ call.op = "none"
    /\ lifecycle = "ready"
    /\ Len(warnings) < MaxWarnings
    /\ \E segment_raw \in Segments :
          \E r \in {featuralize(segment_raw, MaxDepth)} :
              /\ call' = [op |-> "featuralize", segment_raw |-> segment_raw]
              /\ ret' = [ok |-> r.ok, err |-> r.err, features |-> r.features,
                         applied |-> r.applied]
              /\ warnings' = warnings \o r.warns
    /\ UNCHANGED <<schema_vars, ruleset_vars, batch_vars>>

NextFeat == Featuralize \/ Return

SpecFeat == InitFeat /\ [][NextFeat]_vars

\* The position of a modifier class in the order the specification fixes.
ClassRank(type) ==
    CASE type = "prefixal"  -> 1
      [] type = "combining" -> 2
      [] type = "suffixal"  -> 3

\* C2: for every unit of a featuralized segment the diacritics are applied
\* class by class: all prefixal ones first, then all combining ones, then all
\* suffixal ones, whatever the order in which the combining and suffixal
\* glyphs were written after the base.
C2_ClassesAppliedInOrder ==
    (call.op = "featuralize" /\ ret.ok) =>
        LET units == parse_segment(call.segment_raw).segment.units
        IN  /\ Len(ret.applied) = Len(units)
            /\ \A u \in DOMAIN ret.applied :
                  LET steps == ret.applied[u]
                      OfClass(type) == {i \in DOMAIN steps : steps[i].type = type}
                  IN  \* no step of an earlier class follows a step of a later one
                      /\ \A i \in DOMAIN steps : \A j \in DOMAIN steps :
                            i < j => ClassRank(steps[i].type) <= ClassRank(steps[j].type)
                      \* every diacritic of the unit is applied, once, in its class
                      /\ \A type \in {"prefixal", "combining", "suffixal"} :
                            /\ Cardinality(OfClass(type)) = Len(modifiers_of(units[u], type))
                            /\ {steps[i].diacritic : i \in OfClass(type)}
                                   = Range(modifiers_of(units[u], type))

\* C2 witness: "nbho" writes the suffix h before the combining mark o; the
\* unit b gets the prefix n, then o, then h.
C2_Witness ==
    /\ call.op = "featuralize"
    /\ call.segment_raw = <<"n", "b", "h", "o">>
    /\ ret.ok
    /\ Len(ret.applied) = 1
    /\ [i \in DOMAIN ret.applied[1] |-> ret.applied[1][i].type]
           = <<"prefixal", "combining", "suffixal">>
    /\ [i \in DOMAIN ret.applied[1] |-> ret.applied[1][i].diacritic]
           = <<<<"n">>, <<"o">>, <<"h">>>>

\* C10: every bundle that featuralize returns after a matched patch changed
\* it is comprehensive: a patch that leaves a reachable feature without an
\* entry makes the featuralization fail.
C10_PatchedBundlesComprehensive ==
    (call.op = "featuralize" /\ ret.ok) =>
        \A u \in DOMAIN ret.applied : \A i \in DOMAIN ret.applied[u] :
            (Comprehensive(ret.applied[u][i].before)
                 /\ ret.applied[u][i].after # ret.applied[u][i].before)
                => Comprehensive(ret.applied[u][i].after)

\* The input's own form: its tokenization, and the featuralization of the
\* units of that tokenization, before any normalization check.
OwnParse(segment_raw) == parse_segment(segment_raw)

OwnUnits(segment_raw) ==
    featuralize_units(OwnParse(segment_raw).segment.units, 1,
        [ok |-> TRUE, err |-> "none", features_arr |-> <<>>, applied |-> <<>>])

OwnFormSucceeds(segment_raw) == OwnParse(segment_raw).ok /\ OwnUnits(segment_raw).ok

\* The order map of a modifier class.
order_of(type) ==
    CASE type = "prefixal"  -> mods_prefixal_order
      [] type = "combining" -> mods_combining_order
      [] type = "suffixal"  -> mods_suffixal_order

\* A segment is in canonical form when, in every unit and every class, the
\* glyphs stand in ascending order index.
IsCanonical(segment) ==
    \A u \in DOMAIN segment.units : \A type \in {"prefixal", "combining", "suffixal"} :
        LET glyphs == modifiers_of(segment.units[u], type)
        IN  \A i \in DOMAIN glyphs : \A j \in DOMAIN glyphs :
                i < j => order_of(type)[glyphs[i]] < order_of(type)[glyphs[j]]

\* C12: the normalization check never throws: when the input's own
\* tokenization and featuralization succeed, featuralize returns the bundle
\* of the original form, whatever happens to the canonical form.
C12_NormalizationCheckNeverThrows ==
    (call.op = "featuralize" /\ OwnFormSucceeds(call.segment_raw))
        => (ret.ok /\ ret.features = OwnUnits(call.segment_raw).features_arr)

\* The warnings a step appended.
Appended == SubSeq(warnings', Len(warnings) + 1, Len(warnings'))

\* C13 (as claimed): a featuralize call appends a "not normalized" warning iff
\* the tokenized segment differs from its canonical form.
C13_WarnsIffNotCanonical ==
    [][(call'.op = "featuralize" /\ OwnParse(call'.segment_raw).ok)
         => ((Appended # <<>> /\ Appended[1] = "not normalized")
                <=> ~IsCanonical(OwnParse(call'.segment_raw).segment))]_vars

\* C13 (amended): a featuralize call whose own form tokenizes and
\* featuralizes appends a "not normalized" warning iff the tokenized segment
\* differs from its canonical form; every other call appends nothing; and
\* "normalization affects featuralization" is only appended after a
\* "not normalized" warning of the same call.
C13_WarnsIffNotCanonicalAfterFeaturalizing ==
    [][call'.op = "featuralize" =>
         /\ (OwnFormSucceeds(call'.segment_raw)
               /\ ~IsCanonical(OwnParse(call'.segment_raw).segment))
              => (Appended # <<>> /\ Appended[1] = "not normalized")
         /\ ~(OwnFormSucceeds(call'.segment_raw)
               /\ ~IsCanonical(OwnParse(call'.segment_raw).segment))
              => Appended = <<>>
         /\ \A i \in DOMAIN Appended :
              Appended[i] = "normalization affects featuralization"
                  => \E j \in 1..(i - 1) : Appended[j] = "not normalized"]_vars

\* C13 witness: "tjh" writes the suffix j before h, which was defined first;
\* the call returns and the one warning is "not normalized".
C13_Witness ==
    /\ call.op = "featuralize"
    /\ call.segment_raw = <<"t", "j", "h">>
    /\ ret.ok
    /\ warnings = <<"not normalized">>

\* C14: tokenizing an input in which no base character is ever found (empty
\* input, only modifier glyphs, a leading unrecognized glyph) fails with the
\* "No base char found" error and with no other failure.
C14_NoBaseFailsWithNoBaseError ==
    (call.op = "featuralize" /\ Len(OwnParse(call.segment_raw).segment.units) = 0)
        => (~ret.ok /\ ret.err = "No base char found")

\* The characters that occur in some glyph of the Ruleset.
GlyphChars ==
    UNION {Range(g) : g \in (DOMAIN base_characters) \cup glyphs_of(mods_prefixal)
                               \cup glyphs_of(mods_combining) \cup glyphs_of(mods_suffixal)}

\* C15: a Segment is returned only when the whole input has been consumed;
\* an input that cannot be consumed (here: one with a character that is part
\* of no glyph, so that the loop stalls in front of it) fails with the
\* unrecognized-glyph error "Unable to fully featuralize".
C15_StallFailsWithUnrecognizedGlyph ==
    (call.op = "featuralize" /\ Range(call.segment_raw) \ GlyphChars # {})
        => (~ret.ok /\ ret.err = "Unable to fully featuralize")

\* The short sign of a feature value written in long form.
ValueSign(val) ==
    IF val = "true" THEN "+" ELSE IF val = "false" THEN "-"
    ELSE IF val = "null" THEN "0" ELSE val

\* b overridden by c: c's entries, and b's for the features c lacks.
Over(b, c) ==
    [f \in (DOMAIN b) \cup (DOMAIN c) |-> IF f \in DOMAIN c THEN c[f] ELSE b[f]]

\* The defaults table the default directives of a file add up to, a later
\* directive winning over an earlier one for the same feature.
RECURSIVE FileDefaults(_)
FileDefaults(lines) ==
    IF lines = <<>> THEN EmptyBundle
    ELSE LET line == Last(lines)
             earlier == FileDefaults(Front(lines))
         IN  IF line.cmd = RS_META /\ line.meta = "default"
             THEN Over(earlier, [f \in {line.rhs[i].name : i \in DOMAIN line.rhs}
                                    |-> ValueSign(line.word)])
             ELSE earlier

\* What one feature token of a base line stands for.
TokenBundle(tok) ==
    CASE tok.kind = "alias" -> aliases[tok.name]
      [] tok.kind = "short" -> (tok.name :> tok.val)
      [] tok.kind = "long"  -> (tok.name :> ValueSign(tok.val))

\* The tokens laid over `seed` from left to right.
RECURSIVE TokensOver(_, _)
TokensOver(seed, toks) ==
    IF toks = <<>> THEN seed
    ELSE Over(TokensOver(seed, Front(toks)), TokenBundle(Last(toks)))

IsUnsupported(line) ==
    \/ line.cmd = RS_META /\ line.meta = "block"
    \/ line.cmd \in {RS_BASE_DERIVED, RS_BASE_DERIVED_FULL}

HasUnsupported(lines) == \E i \in DOMAIN lines : IsUnsupported(lines[i])

UnsupportedErrors == {"block isn't supported yet", "derived bases aren't supported yet"}

\* The file without its unsupported lines.
RECURSIVE SupportedLines(_)
SupportedLines(lines) ==
    IF lines = <<>> THEN <<>>
    ELSE IF IsUnsupported(Head(lines)) THEN SupportedLines(Tail(lines))
    ELSE <<Head(lines)>> \o SupportedLines(Tail(lines))

MaxSegments == 3

Whitespace == {" ", "\t"}

RECURSIVE trim_start(_)
trim_start(str) ==
    IF str # <<>> /\ Head(str) \in Whitespace THEN trim_start(Tail(str)) ELSE str

RECURSIVE trim_end(_)
trim_end(str) ==
    IF str # <<>> /\ Last(str) \in Whitespace THEN trim_end(Front(str)) ELSE str

\* String.prototype.trim
trim(str) == trim_end(trim_start(str))

\* Map.prototype.set
map_set(m, k, v) == [x \in DOMAIN m \cup {k} |-> IF x = k THEN v ELSE m[x]]

\* A batch loop whose featuralizer answers from its history: once a warning
\* has been issued, it hands back an empty bundle.
RECURSIVE batch_loop_after_warning(_, _, _)
batch_loop_after_warning(lines, i, acc) ==
    IF i > Len(lines) THEN acc
    ELSE Let(trim(lines[i]), LAMBDA segment :
           IF Len(segment) = 0 THEN batch_loop_after_warning(lines, i + 1, acc)
           ELSE Let(featuralize(segment, MaxDepth), LAMBDA r :
                  IF ~r.ok
                  THEN [acc EXCEPT !.ok = FALSE, !.err = r.err, !.warns = @ \o r.warns]
                  ELSE batch_loop_after_warning(lines, i + 1,
                         [acc EXCEPT !.featuralized =
                                        map_set(@, segment,
                                                IF acc.warns = <<>> THEN r.features ELSE <<>>),
                                     !.warns = @ \o r.warns])))

\* The loop of the Psegmentizer constructor from line i on.  An exception
\* of featuralize leaves the loop and the constructor.
RECURSIVE batch_loop(_, _, _)
batch_loop(lines, i, acc) ==
    IF i > Len(lines) THEN acc
    ELSE Let(trim(lines[i]), LAMBDA segment :
           IF Len(segment) = 0 THEN batch_loop(lines, i + 1, acc)
           ELSE Let(featuralize(segment, MaxDepth), LAMBDA r :
                  IF ~r.ok
                  THEN [acc EXCEPT !.ok = FALSE, !.err = r.err, !.warns = @ \o r.warns]
                  ELSE batch_loop(lines, i + 1,
                         [acc EXCEPT !.featuralized = map_set(@, segment, r.features),
                                     !.warns = @ \o r.warns])))

psegmentize(lines) ==
    batch_loop(lines, 1, [ok |-> TRUE, err |-> "", featuralized |-> EmptyBundle,
                          warns |-> <<>>])

\* The lines a segments file is made of: blank lines, padded lines, and
\* segments that featuralize, warn or fail under one rules file or the other.
SegmentMenu ==
    {<<>>, <<" ">>, <<"b">>, <<" ", "b", " ">>, <<"h">>, <<"b", "h">>, <<"s", "h">>,
     <<"s", "h", "j">>, <<"s", "n", "o">>, <<"t", "j", "h">>, <<"b", "t">>, <<"t">>}

SegmentFiles == SeqsUpTo(SegmentMenu, MaxSegments)

InitBatch ==
    /\ \E lines \in FeatFiles : Constructed(lines)
    /\ warnings = <<>>
    /\ NoBatch
    /\ call = NoCall
    /\ ret = NoRet

\* new Psegmentizer(path, ruleset).  When featuralize throws there is no
\* Psegmentizer object; the warnings issued up to then stay issued.
Psegmentize ==
    /\ call.op = "none"
    /\ lifecycle = "ready"
    /\ \E lines \in SegmentFiles :
          \E r \in {psegmentize(lines)} :
              /\ call' = [op |-> "Psegmentizer", lines |-> lines]
              /\ ret' = [ok |-> r.ok, err |-> r.err]
              /\ warnings' = warnings \o r.warns
              /\ IF r.ok
                 THEN /\ segments_raw' = lines
                      /\ segments_featuralized' = r.featuralized
                 ELSE UNCHANGED batch_vars
    /\ UNCHANGED <<schema_vars, ruleset_vars>>

NextBatch == Psegmentize

SpecBatch == InitBatch /\ [][NextBatch]_vars

C19_FailureDoesNotStopBatch ==
    call.op = "Psegmentizer" =>
        \A i \in 1..Len(call.lines) :
            (/\ Len(trim(call.lines[i])) > 0
             /\ featuralize(trim(call.lines[i]), MaxDepth).ok)
                => trim(call.lines[i]) \in DOMAIN segments_featuralized

\* The line command that defines modifiers of a class.
ClassCommand(type) ==
    CASE type = "prefixal"  -> RS_MOD_PREFIX
      [] type = "combining" -> RS_MOD_COMBINING
      [] type = "suffixal"  -> RS_MOD_SUFFIX

\* The lines of a rules file that define the glyph as a modifier of the class.
DefinitionLines(lines, type, glyph) ==
    {i \in DOMAIN lines : /\ lines[i].cmd = ClassCommand(type)
                          /\ strip_placeholder(lines[i].glyph) = glyph}

\* The glyphs a rules file defines as modifiers of the class.
ClassGlyphs(lines, type) ==
    {strip_placeholder(lines[i].glyph) :
        i \in {k \in DOMAIN lines : lines[k].cmd = ClassCommand(type)}}

\* The first line of the file that defines the glyph.
FirstDefinition(lines, type, glyph) ==
    CHOOSE i \in DefinitionLines(lines, type, glyph) :
        \A k \in DefinitionLines(lines, type, glyph) : i <= k

\* Every way of writing a set of glyphs down without repeating one.
Arrangements(glyphs) ==
    {gs \in SeqsUpTo(glyphs, Cardinality(glyphs)) :
        \A i \in DOMAIN gs : \A j \in DOMAIN gs : i # j => gs[i] # gs[j]}

\* A unit that carries the glyphs, in that order, as its modifiers of the class.
UnitWith(type, gs) ==
    [base |-> <<"b">>,
     prefixal_modifiers |-> IF type = "prefixal" THEN gs ELSE <<>>,
     combining_modifiers |-> IF type = "combining" THEN gs ELSE <<>>,
     suffixal_modifiers |-> IF type = "suffixal" THEN gs ELSE <<>>]

\* C20: in a loaded Ruleset the order map of each class has the class's
\* glyphs as keys, the index of a glyph is the number of glyphs of the class
\* whose first definition line comes earlier in the file (so the indexes are
\* 0..n-1 in first-definition order, whatever later lines redefine), and
\* get_normalized arranges a unit's modifiers of the class by ascending
\* first definition line.
C20_OrderIsFirstDefinitionOrder ==
    (call.op = "Ruleset" /\ lifecycle = "ready") =>
        \A type \in {"prefixal", "combining", "suffixal"} :
            LET glyphs == ClassGlyphs(call.lines, type)
                first(g) == FirstDefinition(call.lines, type, g)
            IN  /\ DOMAIN order_of(type) = glyphs
                /\ \A g \in glyphs :
                      order_of(type)[g] =
                          Cardinality({h \in glyphs : first(h) < first(g)})
                /\ \A gs \in Arrangements(glyphs) :
                      LET sorted == modifiers_of(unit_get_normalized(UnitWith(type, gs)), type)
                      IN  /\ Len(sorted) = Len(gs)
                          /\ Range(sorted) = Range(gs)
                          /\ \A i \in DOMAIN sorted : \A j \in DOMAIN sorted :
                                i < j => first(sorted[i]) < first(sorted[j])

\* A file that defines h, then j, then h again loaded: h keeps index 0, j
\* has index 1, and the unit written j h is rearranged to h j.
C20_Witness ==
    /\ call.op = "Ruleset"
    /\ lifecycle = "ready"
    /\ Len(call.lines) = 3
    /\ DefinitionLines(call.lines, "suffixal", <<"h">>) = {1, 3}
    /\ DefinitionLines(call.lines, "suffixal", <<"j">>) = {2}
    /\ mods_suffixal_order[<<"h">>] = 0
    /\ mods_suffixal_order[<<"j">>] = 1
    /\ unit_get_normalized(UnitWith("suffixal", <<<<"j">>, <<"h">>>>)).suffixal_modifiers
           = <<<<"h">>, <<"j">>>>

\* The k-th line of the file, counting from 1, that defines the glyph.
NthDefinition(lines, type, glyph, k) ==
    CHOOSE i \in DefinitionLines(lines, type, glyph) :
        Cardinality({j \in DefinitionLines(lines, type, glyph) : j < i}) = k - 1

\* C21: in a loaded Ruleset the rules stored for a glyph of a class are, one
\* for one and in file order, the (match, patch) pairs of the lines that
\* define the glyph in that class; a line whose match bundle equals an
\* earlier line's adds a rule of its own.
C21_RulesAccumulate ==
    (call.op = "Ruleset" /\ lifecycle = "ready") =>
        \A type \in {"prefixal", "combining", "suffixal"} :
            \A g \in ClassGlyphs(call.lines, type) :
                LET rules == mod_of(mods_of(type), g).rules
                    n == Cardinality(DefinitionLines(call.lines, type, g))
                IN  /\ Len(rules) = n
                    /\ \A k \in 1..n :
                          LET line == call.lines[NthDefinition(call.lines, type, g, k)]
                          IN  /\ rules[k].lhs = TokensOver(EmptyBundle, line.lhs)
                              /\ rules[k].rhs = TokensOver(EmptyBundle, line.rhs)

\* Three definition lines for suffix h loaded, the first and the third with
\* the same match bundle: three rules are stored.
C21_Witness ==
    /\ call.op = "Ruleset"
    /\ lifecycle = "ready"
    /\ DefinitionLines(call.lines, "suffixal", <<"h">>) = {1, 2, 3}
    /\ TokensOver(EmptyBundle, call.lines[1].lhs) = TokensOver(EmptyBundle, call.lines[3].lhs)
    /\ call.lines[2].lhs # call.lines[1].lhs
    /\ Len(mod_of(mods_suffixal, <<"h">>).rules) = 3

(***************************************************************************)
(* SpecTree: new FeatureSchema(path) (feature_schema.ts 129-183) on a      *)
(* parsed JSON file.  A JSON feature node is a record that says whether    *)
(* it has a `name` and a `values` property; `values` is the object's       *)
(* entries in key order, each a label with its array of child nodes.       *)
(***************************************************************************)
MaxFeatures == 3

JsonNode(has_name, name, has_values, values) ==
    [has_name |-> has_name, name |-> name, has_values |-> has_values, values |-> values]

JsonLabels(feature) == {feature.values[k].label : k \in DOMAIN feature.values}

\* Array.prototype.concat over a list of arrays.
RECURSIVE concat(_)
concat(arrays) ==
    IF arrays = <<>> THEN <<>> ELSE Head(arrays) \o concat(Tail(arrays))

\* for (let v in feature.values) descendants = descendants.concat(feature.values[v])
descendants(feature) ==
    concat([k \in DOMAIN feature.values |-> feature.values[k].children])

\* Mutant: the recursion into the descendants forgets top_level = false.
RECURSIVE validate_feature_as_top(_, _)
RECURSIVE validate_each_as_top(_, _)
validate_feature_as_top(feature, top_level) ==
    IF ~feature.has_name THEN "Feature with no name"
    ELSE IF ~feature.has_values THEN "Feature with no values"
    ELSE IF ~top_level /\ ~(/\ Len(feature.values) = 2
                            /\ "+" \in JsonLabels(feature)
                            /\ "-" \in JsonLabels(feature))
    THEN "Non-binary feature"
    ELSE validate_each_as_top(descendants(feature), 1)
validate_each_as_top(features, i) ==
    IF i > Len(features) THEN "none"
    ELSE LET e == validate_feature_as_top(features[i], TRUE)
         IN  IF e # "none" THEN e ELSE validate_each_as_top(features, i + 1)

\* validate_feature (132-142): the error it throws, or "none".
RECURSIVE validate_feature(_, _)
RECURSIVE validate_each(_, _, _)
validate_feature(feature, top_level) ==
    IF ~feature.has_name THEN "Feature with no name"
    ELSE IF ~feature.has_values THEN "Feature with no values"
    ELSE IF ~top_level /\ ~(/\ Len(feature.values) = 2
                            /\ "+" \in JsonLabels(feature)
                            /\ "-" \in JsonLabels(feature))
    THEN "Non-binary feature"
    ELSE validate_each(descendants(feature), 1, FALSE)
\* features.map(f => validate_feature(f, top_level)): the first error.
validate_each(features, i, top_level) ==
    IF i > Len(features) THEN "none"
    ELSE LET e == validate_feature(features[i], top_level)
         IN  IF e # "none" THEN e ELSE validate_each(features, i + 1, top_level)

\* The nodes below and including the features, in the order
\* build_features_by_name visits them.
RECURSIVE nodes_preorder(_)
nodes_preorder(features) ==
    IF features = <<>> THEN <<>>
    ELSE <<Head(features)>>
             \o (IF Head(features).has_values
                 THEN nodes_preorder(descendants(Head(features))) ELSE <<>>)
             \o nodes_preorder(Tail(features))

\* build_features_by_name (157-167) over the visiting order, the Root first:
\* the second node of a name throws.
ambiguous_name(data) ==
    LET names == <<"Root">> \o [k \in DOMAIN nodes_preorder(data) |-> nodes_preorder(data)[k].name]
    IN  \E i \in DOMAIN names : \E j \in DOMAIN names : i < j /\ names[i] = names[j]

\* The loaded tree in the form the rest of the model reads: the top-level
\* names and, per name, the child names under each label.
flat_schema(data) ==
    LET nodes == nodes_preorder(data)
        node_of(n) == nodes[CHOOSE k \in DOMAIN nodes : nodes[k].name = n]
        children_of(node, label) ==
            LET entry == node.values[CHOOSE k \in DOMAIN node.values : node.values[k].label = label]
            IN  [k \in DOMAIN entry.children |-> entry.children[k].name]
    IN  [Features |-> [k \in DOMAIN data |-> data[k].name],
         values |-> [n \in {nodes[k].name : k \in DOMAIN nodes} |->
                        [label \in JsonLabels(node_of(n)) |-> children_of(node_of(n), label)]]]

\* FeatureSchema.constructor: validation of every top-level feature, then
\* the name index, then the parent index.
schema_construct(data) ==
    LET e == validate_each(data, 1, TRUE)
    IN  IF e # "none" THEN [ok |-> FALSE, err |-> e]
        ELSE IF ambiguous_name(data) THEN [ok |-> FALSE, err |-> "Ambiguous feature name"]
        ELSE [ok |-> TRUE, err |-> "none"]

JsonEntry(label, children) == [label |-> label, children |-> children]

\* Leaves of a schema file: binary features, a three-valued one, one with
\* two labels that are not + and -, one without a name, one without values.
JsonLeaves ==
    {JsonNode(TRUE, "a", TRUE, <<JsonEntry("+", <<>>), JsonEntry("-", <<>>)>>),
     JsonNode(TRUE, "b", TRUE, <<JsonEntry("+", <<>>), JsonEntry("-", <<>>)>>),
     JsonNode(TRUE, "c", TRUE, <<JsonEntry("+", <<>>), JsonEntry("-", <<>>),
                                 JsonEntry("0", <<>>)>>),
     JsonNode(TRUE, "b", TRUE, <<JsonEntry("+", <<>>), JsonEntry("0", <<>>)>>),
     JsonNode(FALSE, "", TRUE, <<JsonEntry("+", <<>>), JsonEntry("-", <<>>)>>),
     JsonNode(TRUE, "a", FALSE, <<>>)}

\* Inner nodes: a binary or a three-valued feature with its children under
\* its first or its second label.
JsonInner(children) ==
    {JsonNode(TRUE, name, TRUE,
              [k \in 1..Len(labels) |->
                  JsonEntry(labels[k], IF k = at THEN children ELSE <<>>)]) :
        name \in {"a", "d"}, labels \in {<<"+", "-">>, <<"+", "-", "0">>}, at \in 1..2}

\* The feature arrays of exactly n nodes, and the trees of exactly n nodes.
RECURSIVE JsonForests(_)
RECURSIVE JsonTrees(_)
JsonForests(n) ==
    IF n = 0 THEN {<<>>}
    ELSE UNION {{<<t>> \o f : t \in JsonTrees(k), f \in JsonForests(n - k)} : k \in 1..n}
JsonTrees(n) ==
    IF n = 1 THEN JsonLeaves
    ELSE UNION {JsonInner(f) : f \in JsonForests(n - 1)}

\* The schema files of at most n nodes.
SchemaFiles(n) == UNION {JsonForests(k) : k \in 0..n}

SchemaUnloaded ==
    /\ raw_schema = [Features |-> <<>>, values |-> EmptyBundle]
    /\ features_by_name = EmptyBundle
    /\ features_by_parent = EmptyBundle

InitTree ==
    /\ SchemaUnloaded
    /\ RulesetUnloaded
    /\ warnings = <<>>
    /\ NoBatch
    /\ call = NoCall
    /\ ret = NoRet

\* new FeatureSchema(path).  When the constructor throws there is no schema.
LoadSchema ==
    /\ call.op = "none"
    /\ \E data \in SchemaFiles(MaxFeatures) :
          \E r \in {schema_construct(data)} :
              /\ call' = [op |-> "FeatureSchema", data |-> data]
              /\ ret' = r
              /\ IF r.ok
                 THEN /\ raw_schema' = flat_schema(data)
                      /\ features_by_name' = build_features_by_name(flat_schema(data))
                      /\ features_by_parent' = build_features_by_parent(flat_schema(data))
                 ELSE UNCHANGED schema_vars
    /\ UNCHANGED <<ruleset_vars, batch_vars, warnings>>

NextTree == LoadSchema

SpecTree == InitTree /\ [][NextTree]_vars

\* The nodes of a schema file below the top level.
BelowTop(data) ==
    nodes_preorder(concat([k \in DOMAIN data |->
                              IF data[k].has_values THEN descendants(data[k]) ELSE <<>>]))

IsBinaryNode(feature) == JsonLabels(feature) = {"+", "-"}

\* A file that must not load: a repeated name, a node without name or
\* values, or a node below the top level that is not binary.
Malformed(data) ==
    LET nodes == nodes_preorder(data)
    IN  \/ \E i \in DOMAIN nodes : ~nodes[i].has_name \/ ~nodes[i].has_values
        \/ \E i \in DOMAIN nodes : \E j \in DOMAIN nodes :
              i # j /\ nodes[i].has_name /\ nodes[j].has_name /\ nodes[i].name = nodes[j].name
        \/ \E i \in DOMAIN BelowTop(data) :
              BelowTop(data)[i].has_values /\ ~IsBinaryNode(BelowTop(data)[i])

\* C22: a loaded FeatureSchema has one node per name, the name index has
\* exactly those names and the Root, and every node below the top level has
\* exactly the labels + and -; a malformed file does not load.
C22_LoadedSchemaWellFormed ==
    call.op = "FeatureSchema" =>
        /\ ret.ok =>
              LET nodes == nodes_preorder(call.data)
              IN  /\ \A i \in DOMAIN nodes : \A j \in DOMAIN nodes :
                        nodes[i].name = nodes[j].name => i = j
                  /\ DOMAIN features_by_name
                         = {nodes[i].name : i \in DOMAIN nodes} \cup {"Root"}
                  /\ \A i \in DOMAIN BelowTop(call.data) :
                        IsBinaryNode(BelowTop(call.data)[i])
        /\ Malformed(call.data) => ~ret.ok

\* A file with a three-valued top-level feature over a binary child loaded.
C22_Witness ==
    /\ call.op = "FeatureSchema"
    /\ ret.ok
    /\ Len(call.data) = 2
    /\ \E k \in DOMAIN call.data : ~IsBinaryNode(call.data[k])
    /\ BelowTop(call.data) # <<>>
    /\ Cardinality(DOMAIN features_by_name) = 4

\* Glyph occurrences of a class, in input order.
Tokens(klass, glyphs) == [k \in DOMAIN glyphs |-> [klass |-> klass, glyph |-> glyphs[k]]]

\* The glyph occurrences the tokenizer's loop consumes from 0-based position
\* p on: per pass a run of bases, a run of combining marks and a run of
\* suffixes, every occurrence counted, until a pass consumes nothing.
RECURSIVE ScanFrom(_, _)
ScanFrom(str, p) ==
    LET bs == LongestTokens(str, DOMAIN base_characters, p)
        p1 == p + TotalLen(bs)
        cs == LongestTokens(str, glyphs_of(mods_combining), p1)
        p2 == p1 + TotalLen(cs)
        ss == LongestTokens(str, glyphs_of(mods_suffixal), p2)
        p3 == p2 + TotalLen(ss)
    IN  Tokens("base", bs) \o Tokens("combining", cs) \o Tokens("suffixal", ss)
            \o (IF p3 # p THEN ScanFrom(str, p3) ELSE <<>>)

\* The leading prefix occurrences of the input.
LeadingPrefixes(str) == LongestTokens(str, glyphs_of(mods_prefixal), 0)

\* The occurrences that follow the leading prefixes.
Scan(str) == ScanFrom(str, TotalLen(LeadingPrefixes(str)))

\* The base glyph occurrences of the input, in input order.
BaseOccurrences(str) ==
    LET bases == SelectSeq(Scan(str), LAMBDA t : t.klass = "base")
    IN  [k \in DOMAIN bases |-> bases[k].glyph]

\* C23: for every input the tokenizer accepts, the units are, one for one
\* and in input order, the base glyph occurrences it consumed, a base glyph
\* that occurs twice in one run of bases included.
C23_OneUnitPerBaseOccurrence ==
    (call.op = "featuralize" /\ OwnParse(call.segment_raw).ok) =>
        LET units == OwnParse(call.segment_raw).segment.units
        IN  [u \in DOMAIN units |-> units[u].base] = BaseOccurrences(call.segment_raw)

\* C24: in every tokenized segment the leading prefixes are the prefixal
\* modifiers of the first unit and no later unit has any, and every combining
\* or suffixal occurrence is a modifier of the unit of the nearest base
\* occurrence before it.
C24_ModifiersAttachToNearestBase ==
    (call.op = "featuralize" /\ OwnParse(call.segment_raw).ok) =>
        LET units == OwnParse(call.segment_raw).segment.units
            scan == Scan(call.segment_raw)
        IN  /\ Range(units[1].prefixal_modifiers) = Range(LeadingPrefixes(call.segment_raw))
            /\ \A u \in DOMAIN units : u > 1 => units[u].prefixal_modifiers = <<>>
            /\ \A i \in DOMAIN scan :
                  scan[i].klass # "base" =>
                      LET k == Cardinality({j \in 1..i : scan[j].klass = "base"})
                          nearest == CHOOSE j \in 1..i :
                                        /\ scan[j].klass = "base"
                                        /\ \A m \in (j + 1)..i : scan[m].klass # "base"
                      IN  /\ k \in DOMAIN units
                          /\ units[k].base = scan[nearest].glyph
                          /\ scan[i].glyph \in Range(modifiers_of(units[k], scan[i].klass))

IsAliasLine(line) == line.cmd = RS_META /\ line.meta = "alias"

IsBlockLine(line) == line.cmd = RS_META /\ line.meta = "block"

\* The alias names a line refers to.
AliasRefs(line) ==
    {tok.name : tok \in {t \in Range(line.lhs) \cup Range(line.rhs) : t.kind = "alias"}}

\* The alias names defined by the lines before line i, and by any line.
DefinedBefore(lines, i) == {lines[j].word : j \in {k \in 1..(i - 1) : IsAliasLine(lines[k])}}

DefinedAnywhere(lines) == DefinedBefore(lines, Len(lines) + 1)

\* Line i is an alias definition that refers to an alias no earlier line
\* defines.
RefersAhead(lines, i) ==
    IsAliasLine(lines[i]) /\ ~(AliasRefs(lines[i]) \subseteq DefinedBefore(lines, i))

\* C25: when an alias definition refers to an alias that no earlier line
\* defines, and the first pass gets as far as that line, the load fails with
\* the unknown-alias error, also when a later line defines the alias; when
\* every alias definition refers to earlier aliases only and every base or
\* modifier line refers to aliases defined anywhere in the file, before or
\* after it, no unknown-alias error arises.
C25_AliasesHoistedOneStep ==
    call.op = "Ruleset" =>
        /\ \A i \in DOMAIN call.lines :
              (/\ RefersAhead(call.lines, i)
               /\ \A j \in 1..(i - 1) :
                     ~IsBlockLine(call.lines[j]) /\ ~RefersAhead(call.lines, j))
                  => (~ret.ok /\ ret.err = "unknown alias")
        /\ (/\ \A i \in DOMAIN call.lines : ~RefersAhead(call.lines, i)
            /\ \A i \in DOMAIN call.lines :
                  call.lines[i].cmd # RS_META
                      => AliasRefs(call.lines[i]) \subseteq DefinedAnywhere(call.lines))
              => ret.err # "unknown alias"

\* A file loaded whose base line refers to an alias defined on the next
\* line, and whose last line is an alias that refers to that earlier alias.
C25_Witness ==
    /\ call.op = "Ruleset"
    /\ lifecycle = "ready"
    /\ Len(call.lines) = 3
    /\ call.lines[1].cmd = RS_BASE
    /\ AliasRefs(call.lines[1]) = {"lab"}
    /\ IsAliasLine(call.lines[2]) /\ call.lines[2].word = "lab"
    /\ IsAliasLine(call.lines[3]) /\ AliasRefs(call.lines[3]) = {"lab"}
    /\ base_characters[call.lines[1].glyph]["labial"] = "+"
    /\ DOMAIN aliases = {"lab", "lv"}

\* C26: in a loaded Ruleset the bundle stored for an alias is its own token
\* list laid over the empty bundle, whatever default directives the file
\* has and wherever they stand.
C26_AliasIsItsOwnTokens ==
    (call.op = "Ruleset" /\ lifecycle = "ready") =>
        \A i \in DOMAIN call.lines :
            IsAliasLine(call.lines[i]) =>
                /\ call.lines[i].word \in DOMAIN aliases
                /\ aliases[call.lines[i].word] = TokensOver(EmptyBundle, call.lines[i].rhs)

\* C27: the passes of the tokenizer's loop start with strictly shorter and
\* shorter remainders, the last pass alone leaving the remainder as it found
\* it, so there are at most (input length + 1) passes; and a greedy_match
\* scan consumes at least one code unit for every glyph it reports.
C27_TokenizerTerminates ==
    call.op = "featuralize" =>
        LET lengths == OwnParse(call.segment_raw).lengths
            n == Len(lengths)
        IN  /\ n >= 1
            /\ n <= Len(call.segment_raw) + 1
            /\ \A k \in 1..(n - 1) : lengths[k + 1] < lengths[k]
            /\ \A p \in 0..Len(call.segment_raw) :
                  \A set \in {DOMAIN base_characters, glyphs_of(mods_prefixal),
                              glyphs_of(mods_combining), glyphs_of(mods_suffixal)} :
                      LET str == SubSeq(call.segment_raw, p + 1, Len(call.segment_raw))
                          r == greedy_match(str, set)
                      IN  /\ \A m \in DOMAIN r.matches : Len(r.matches[m]) >= 1
                          /\ Len(str) - Len(r.remainder) >= Len(r.matches)

\* An input tokenized in four passes: the remainder shrinks from 4 to 2 to
\* 1 to 0, and the fourth pass consumes nothing.
C27_Witness ==
    /\ call.op = "featuralize"
    /\ ret.ok
    /\ Len(call.segment_raw) = 4
    /\ OwnParse(call.segment_raw).lengths = <<4, 2, 1, 0>>

\* The schema file the FeatureSchema was loaded from, as its parent index
\* tells.
LoadedTree == CHOOSE tree \in Schemas : features_by_parent = build_features_by_parent(tree)

\* C28: a validate_bundle call, accepting or rejecting, leaves the schema's
\* top-level feature list and its two indexes as they were, and its verdict
\* is the verdict the freshly loaded schema gives for the bundle.
C28_ValidateBundleKeepsSchema ==
    [][call'.op = "validate_bundle" =>
          /\ UNCHANGED schema_vars
          /\ ret'.ok = validate_bundle(LoadedTree, call'.bundle).ok]_vars

\* The canonical form of the input's tokenization, and its raw string.
CanonicalForm(segment_raw) == get_normalized(OwnParse(segment_raw).segment)

CanonicalRaw(segment_raw) == segment_raw_of(CanonicalForm(segment_raw))

\* C29: for every input the tokenizer accepts, tokenizing the raw string of
\* its canonical form succeeds and gives the canonical form, unit for unit
\* with the same modifiers in the same order, and that segment is
\* normalized.
C29_CanonicalRawTokenizesToCanonical ==
    (call.op = "featuralize" /\ OwnParse(call.segment_raw).ok) =>
        LET reparsed == parse_segment(CanonicalRaw(call.segment_raw))
        IN  /\ reparsed.ok
            /\ reparsed.segment.units = CanonicalForm(call.segment_raw).units
            /\ is_normalized(reparsed.segment)

\* UnitSegment.is_normalized.
unit_is_normalized(unit) == unit_eq(unit, unit_get_normalized(unit))

\* C30: for every unit of a tokenized segment, the normalized unit has the
\* same base and, class by class, the same modifier glyphs, each once; it is
\* normalized; and normalizing it again gives a unit equal to it under the
\* order-sensitive eq.
C30_GetNormalizedReordersOnce ==
    (call.op = "featuralize" /\ OwnParse(call.segment_raw).ok) =>
        \A u \in DOMAIN OwnParse(call.segment_raw).segment.units :
            LET unit == OwnParse(call.segment_raw).segment.units[u]
                norm == unit_get_normalized(unit)
            IN  /\ norm.base = unit.base
                /\ \A type \in {"prefixal", "combining", "suffixal"} :
                      /\ Range(modifiers_of(norm, type)) = Range(modifiers_of(unit, type))
                      /\ Len(modifiers_of(norm, type)) = Len(modifiers_of(unit, type))
                /\ unit_is_normalized(norm)
                /\ unit_eq(unit_get_normalized(norm), norm)

\* A call whose input has a unit with two suffixes written against the
\* order: normalizing the unit changes it.
C30_Witness ==
    /\ call.op = "featuralize"
    /\ OwnParse(call.segment_raw).ok
    /\ \E u \in DOMAIN OwnParse(call.segment_raw).segment.units :
          LET unit == OwnParse(call.segment_raw).segment.units[u]
          IN  /\ Len(unit.suffixal_modifiers) = 2
              /\ ~unit_is_normalized(unit)
              /\ unit_get_normalized(unit).suffixal_modifiers
                     = <<unit.suffixal_modifiers[2], unit.suffixal_modifiers[1]>>
====
